---------------------------- MODULE Spec2Model ----------------------------
(***************************************************************************)
(* A model of the Reddit bot: the content validator and comment            *)
(* synthesizer (validators.py), the Reddit client's comment pipeline       *)
(* (reddit_client.py), the bot's auto-comment and monitoring loops, its    *)
(* scheduler (reddit_bot.py) and the session that calls them one after     *)
(* another (main.py).                                                      *)
(*                                                                         *)
(* Python strings are sequences of one-character strings over the code     *)
(* points 1..255.  An f-string message is a record Msg: its literal        *)
(* template and the values put in it.                                      *)
(* The Text Oracle (the agno agent) and the Gateway (praw) are the         *)
(* environment: every call draws its outcome from a small set.             *)
(***************************************************************************)
EXTENDS Integers, Sequences, FiniteSets, TLC

(***************************************************************************)
(* Program constants (config.py).                                          *)
(***************************************************************************)
MAX_COMMENT_LENGTH == 10000
MIN_COMMENT_LENGTH == 10
RATE_LIMIT_DELAY == 2

(***************************************************************************)
(* Python str operations.                                                  *)
(***************************************************************************)
\* A character that is neither printable ASCII nor one of TLA+'s escapes is
\* written as its Python escape: "\\x85" is the one character chr(0x85),
\* "\\xc9" is the one character chr(0xc9).
\* The characters str.strip() removes, among the code points 1..255: tab, line
\* feed, vertical tab, form feed, carriage return, the separators 28..31,
\* space, next line (133) and no-break space (160)
Whitespace == {"\t", "\n", "\\x0b", "\f", "\r", "\\x1c", "\\x1d", "\\x1e", "\\x1f", " ", "\\x85", "\\xa0"}

\* the characters str.lower() changes, among the code points 1..255, and
\* their images: A-Z and the Latin-1 capitals 192..214, 216..222
UpperChars == <<"A","B","C","D","E","F","G","H","I","J","K","L","M","N","O","P","Q","R","S","T","U","V","W","X","Y","Z","\\xc0","\\xc1","\\xc2","\\xc3","\\xc4","\\xc5","\\xc6","\\xc7","\\xc8","\\xc9","\\xca","\\xcb","\\xcc","\\xcd","\\xce","\\xcf","\\xd0","\\xd1","\\xd2","\\xd3","\\xd4","\\xd5","\\xd6","\\xd8","\\xd9","\\xda","\\xdb","\\xdc","\\xdd","\\xde">>
LowerChars == <<"a","b","c","d","e","f","g","h","i","j","k","l","m","n","o","p","q","r","s","t","u","v","w","x","y","z","\\xe0","\\xe1","\\xe2","\\xe3","\\xe4","\\xe5","\\xe6","\\xe7","\\xe8","\\xe9","\\xea","\\xeb","\\xec","\\xed","\\xee","\\xef","\\xf0","\\xf1","\\xf2","\\xf3","\\xf4","\\xf5","\\xf6","\\xf8","\\xf9","\\xfa","\\xfb","\\xfc","\\xfd","\\xfe">>

\* str.lower() on one character
LowerChar(c) ==
    IF \E i \in 1..Len(UpperChars) : UpperChars[i] = c
    THEN LowerChars[CHOOSE i \in 1..Len(UpperChars) : UpperChars[i] = c]
    ELSE c

\* str.lower()
Lower(s) == [i \in 1..Len(s) |-> LowerChar(s[i])]

\* str.strip(): drop leading and trailing whitespace
Strip(s) ==
    IF \A i \in 1..Len(s) : s[i] \in Whitespace
    THEN << >>
    ELSE LET first == CHOOSE i \in 1..Len(s) :
                        /\ s[i] \notin Whitespace
                        /\ \A j \in 1..(i-1) : s[j] \in Whitespace
             last  == CHOOSE i \in 1..Len(s) :
                        /\ s[i] \notin Whitespace
                        /\ \A j \in (i+1)..Len(s) : s[j] \in Whitespace
         IN  SubSeq(s, first, last)

\* str.startswith(p)
StartsWith(s, p) == Len(p) <= Len(s) /\ SubSeq(s, 1, Len(p)) = p

\* p in s
Contains(s, p) ==
    \E i \in 1..(Len(s) - Len(p) + 1) : SubSeq(s, i, i + Len(p) - 1) = p

\* str.replace(old, new): every non-overlapping occurrence, left to right
RECURSIVE Replace(_, _, _)
Replace(s, old, new) ==
    IF Len(s) < Len(old) \/ Len(old) = 0 THEN s
    ELSE IF StartsWith(s, old)
         THEN new \o Replace(SubSeq(s, Len(old) + 1, Len(s)), old, new)
         ELSE <<s[1]>> \o Replace(Tail(s), old, new)

\* LET x == v IN F(x), with v evaluated once
Bind(v, F(_)) == CHOOSE y \in {F(x) : x \in {v}} : TRUE

(***************************************************************************)
(* String literals of the program.                                         *)
(***************************************************************************)
S_VALID == <<"V","A","L","I","D">>
S_INVALID == <<"I","N","V","A","L","I","D">>
S_INVALID_COLON == <<"I","N","V","A","L","I","D",":">>
S_valid == <<"v","a","l","i","d">>
S_Error == <<"E","r","r","o","r">>
S_ErrorGenerating == <<"E","r","r","o","r"," ","g","e","n","e","r","a","t","i","n","g"," ","c","o","m","m","e","n","t",":"," ">>
\* str(AttributeError) of None.strip()
S_NoneStrip == <<"'","N","o","n","e","T","y","p","e","'"," ","o","b","j","e","c","t"," ","h","a","s"," ","n","o"," ","a","t","t","r","i","b","u","t","e"," ","'","s","t","r","i","p","'">>

(***************************************************************************)
(* Messages: an f-string is its template and the values formatted into it. *)
(***************************************************************************)
Msg(fmt, num, text) == [pre |-> "", fmt |-> fmt, num |-> num, text |-> text]
\* a message put behind a literal prefix: f"<pre>{m}"
Prefixed(pre, m) == [m EXCEPT !.pre = pre]

MsgTooShort == Msg("Comment too short (minimum {num} characters)", MIN_COMMENT_LENGTH, << >>)
MsgTooLong == Msg("Comment too long (maximum {num} characters)", MAX_COMMENT_LENGTH, << >>)
MsgValid == Msg("Comment is valid", 0, << >>)
MsgCompleted == Msg("Content validation completed", 0, << >>)
MsgValidationError(e) == Msg("Validation error: {text}", 0, e)
MsgText(t) == Msg("{text}", 0, t)
\* Python's None where a message is expected
NoMsg == Msg("", 0, << >>)

(***************************************************************************)
(* The Text Oracle: one agent.run(prompt) either raises, or returns a      *)
(* response whose content is a string or None.                             *)
(***************************************************************************)
OracleRaises(e) == [kind |-> "raise", content |-> << >>, exc |-> e]
OracleNone == [kind |-> "none", content |-> << >>, exc |-> << >>]
OracleSays(t) == [kind |-> "content", content |-> t, exc |-> << >>]

(***************************************************************************)
(* RedditValidator.validate_comment.  The body of the try block either     *)
(* returns a verdict or raises; oracle_calls counts validation_agent.run.  *)
(***************************************************************************)
Verdict(ok, reason, calls) ==
    [raised |-> FALSE, ok |-> ok, reason |-> reason, exc |-> << >>, oracle_calls |-> calls]
Raised(e, calls) ==
    [raised |-> TRUE, ok |-> FALSE, reason |-> MsgText(<< >>), exc |-> e, oracle_calls |-> calls]

\* a faulty variant: the substring is looked for without lowering the response
parse_verdict_case_sensitive(result, calls) ==
    IF StartsWith(result, S_VALID)
    THEN Verdict(TRUE, MsgValid, calls)
    ELSE IF StartsWith(result, S_INVALID)
         THEN Verdict(FALSE, MsgText(Strip(Replace(result, S_INVALID_COLON, << >>))), calls)
         ELSE Verdict(Contains(result, S_valid), MsgCompleted, calls)

\* validators.py:55-60, the verdict read off the trimmed response
parse_verdict(result, calls) ==
    IF StartsWith(result, S_VALID)
    THEN Verdict(TRUE, MsgValid, calls)
    ELSE IF StartsWith(result, S_INVALID)
         THEN Verdict(FALSE, MsgText(Strip(Replace(result, S_INVALID_COLON, << >>))), calls)
         ELSE Verdict(Contains(Lower(result), S_valid), MsgCompleted, calls)

\* a faulty variant: the minimum is tested on the raw text, not the trimmed one
validate_comment_try_untrimmed(comment_text, oracle) ==
    IF Len(comment_text) < MIN_COMMENT_LENGTH
    THEN Verdict(FALSE, MsgTooShort, 0)
    ELSE IF Len(comment_text) > MAX_COMMENT_LENGTH
         THEN Verdict(FALSE, MsgTooLong, 0)
         ELSE CASE oracle.kind = "raise" -> Raised(oracle.exc, 1)
                [] oracle.kind = "none" -> Raised(S_NoneStrip, 1)
                [] OTHER -> Bind(Strip(oracle.content), LAMBDA result : parse_verdict(result, 1))

\* validators.py:44-60, the try block
validate_comment_try(comment_text, oracle) ==
    IF Len(Strip(comment_text)) < MIN_COMMENT_LENGTH
    THEN Verdict(FALSE, MsgTooShort, 0)
    ELSE IF Len(comment_text) > MAX_COMMENT_LENGTH
         THEN Verdict(FALSE, MsgTooLong, 0)
         ELSE CASE oracle.kind = "raise" -> Raised(oracle.exc, 1)
                [] oracle.kind = "none" -> Raised(S_NoneStrip, 1)
                [] OTHER -> Bind(Strip(oracle.content), LAMBDA result : parse_verdict(result, 1))

\* a faulty variant: no except clause, the exception leaves the method
validate_comment_uncaught(comment_text, oracle) == validate_comment_try(comment_text, oracle)

\* validators.py:41-64, try/except Exception
validate_comment(comment_text, oracle) ==
    Bind(validate_comment_try(comment_text, oracle),
         LAMBDA r : IF r.raised
                    THEN Verdict(FALSE, MsgValidationError(r.exc), r.oracle_calls)
                    ELSE r)

(***************************************************************************)
(* RedditValidator.generate_comment.                                       *)
(***************************************************************************)
S_Here == <<"H","e","r","e">>
S_ThisComment == <<"T","h","i","s"," ","c","o","m","m","e","n","t">>
S_IGenerated == <<"I"," ","g","e","n","e","r","a","t","e","d">>
MetaPrefixes == {S_Here, S_ThisComment, S_IGenerated}

\* str.split('\n')
RECURSIVE SplitLines(_)
SplitLines(s) ==
    IF \A i \in 1..Len(s) : s[i] # "\n"
    THEN <<s>>
    ELSE LET i == CHOOSE k \in 1..Len(s) :
                    s[k] = "\n" /\ \A j \in 1..(k-1) : s[j] # "\n"
         IN  <<SubSeq(s, 1, i - 1)>> \o SplitLines(SubSeq(s, i + 1, Len(s)))

\* '\n'.join(lines)
RECURSIVE JoinLines(_)
JoinLines(lines) ==
    IF Len(lines) = 0 THEN << >>
    ELSE IF Len(lines) = 1 THEN lines[1]
         ELSE lines[1] \o <<"\n">> \o JoinLines(Tail(lines))

\* validators.py:81, the condition of the comprehension
keeps_line(line) ==
    /\ Strip(line) # << >>
    /\ \A p \in MetaPrefixes : ~StartsWith(line, p)

\* validators.py:80-81, the comprehension over the lines
RECURSIVE clean_lines(_)
clean_lines(lines) ==
    IF Len(lines) = 0 THEN << >>
    ELSE (IF keeps_line(lines[1]) THEN <<Strip(lines[1])>> ELSE << >>)
         \o clean_lines(Tail(lines))

\* validators.py:77-83
clean_response(content) ==
    Bind(Strip(content), LAMBDA generated_comment :
        Bind(clean_lines(SplitLines(generated_comment)), LAMBDA lines :
            IF Len(lines) > 0 THEN JoinLines(lines) ELSE generated_comment))

Returned(t) == [raised |-> FALSE, text |-> t, exc |-> << >>]
Threw(e) == [raised |-> TRUE, text |-> << >>, exc |-> e]

\* validators.py:70-83, the try block
generate_comment_try(oracle) ==
    CASE oracle.kind = "raise" -> Threw(oracle.exc)
      [] oracle.kind = "none" -> Threw(S_NoneStrip)
      [] OTHER -> Returned(clean_response(oracle.content))

\* validators.py:66-87, try/except Exception
generate_comment(oracle) ==
    Bind(generate_comment_try(oracle),
         LAMBDA r : IF r.raised THEN S_ErrorGenerating \o r.exc ELSE r.text)

(***************************************************************************)
(* RedditValidator.validate_subreddit_name and validate_post_data.         *)
(***************************************************************************)
DigitChars == <<"0","1","2","3","4","5","6","7","8","9">>
SeqRange(q) == {q[i] : i \in 1..Len(q)}
\* the class [A-Za-z0-9_] of a str pattern: A-Z and a-z are the first 26 entries
\* of UpperChars and LowerChars; no other letter belongs to it
NameChars ==
    SeqRange(SubSeq(UpperChars, 1, 26)) \cup SeqRange(SubSeq(LowerChars, 1, 26))
    \cup SeqRange(DigitChars) \cup {"_"}
NAME_MIN == 3
NAME_MAX == 21
S_r_slash == <<"r","/">>
S_R_slash == <<"R","/">>

\* re.match(r'^[A-Za-z0-9_]{3,21}$', s): without re.MULTILINE the $ matches
\* at the end of the string and also just before a newline that ends it
BeforeFinalNewline(s) ==
    IF Len(s) > 0 /\ s[Len(s)] = "\n" THEN SubSeq(s, 1, Len(s) - 1) ELSE s
IsName(s) == Len(s) \in NAME_MIN..NAME_MAX /\ \A i \in 1..Len(s) : s[i] \in NameChars
matches_name_pattern(s) == IsName(s) \/ IsName(BeforeFinalNewline(s))

MsgEmptyName == Msg("Subreddit name cannot be empty", 0, << >>)
MsgBadFormat == Msg("Invalid subreddit name format", 0, << >>)
\* the pair (bool, str) the two checks return
Checked(ok, text) == [raised |-> FALSE, ok |-> ok, text |-> text]
CheckRaised(e) == [raised |-> TRUE, ok |-> FALSE, text |-> MsgText(e)]

\* validators.py:89-99
validate_subreddit_name(subreddit) ==
    IF Len(subreddit) = 0
    THEN Checked(FALSE, MsgEmptyName)
    ELSE Bind(Replace(Replace(subreddit, S_r_slash, << >>), S_R_slash, << >>), LAMBDA name :
            IF matches_name_pattern(name)
            THEN Checked(TRUE, MsgText(name))
            ELSE Checked(FALSE, MsgBadFormat))

\* a post_data dict as validate_post_data reads it: each of the two keys may
\* be missing, and the title may be None
Item(has_title, title_none, title, has_id, id) ==
    [has_title |-> has_title, title_none |-> title_none, title |-> title,
     has_id |-> has_id, id |-> id]
NoItem == Item(FALSE, FALSE, << >>, FALSE, "")
MsgMissingField(field) == Msg("Missing required field: {text}", 0, field)
MsgEmptyTitle == Msg("Post title cannot be empty", 0, << >>)
MsgPostValid == Msg("Post data is valid", 0, << >>)
S_title == <<"t","i","t","l","e">>
S_id == <<"i","d">>

\* validators.py:101-112
validate_post_data(post_data) ==
    IF ~post_data.has_title THEN Checked(FALSE, MsgMissingField(S_title))
    ELSE IF ~post_data.has_id THEN Checked(FALSE, MsgMissingField(S_id))
    ELSE IF post_data.title_none THEN CheckRaised(S_NoneStrip)
    ELSE IF Len(Strip(post_data.title)) = 0 THEN Checked(FALSE, MsgEmptyTitle)
    ELSE Checked(TRUE, MsgPostValid)

(***************************************************************************)
(* The Gateway (praw).  A lazy Submission is fetched on first attribute    *)
(* access: the fetch returns the item (here only its locked flag matters)  *)
(* or raises; submission.reply returns a comment or raises.                *)
(***************************************************************************)
Exc(type, text) == [type |-> type, text |-> text]
NoExc == Exc("none", << >>)

FetchOk(locked) == [kind |-> "ok", locked |-> locked, exc |-> NoExc]
FetchRaises(e) == [kind |-> "raise", locked |-> FALSE, exc |-> e]
ReplyOk == [kind |-> "ok", exc |-> NoExc]
ReplyRaises(e) == [kind |-> "raise", exc |-> e]

NoneId == "None"
NewCommentId == "c1"

\* the calls one client operation makes, in order
Ev(ev, text, ok) == [ev |-> ev, text |-> text, ok |-> ok]

Result(success, error, comment_id) ==
    [success |-> success, error |-> error, comment_id |-> comment_id]

Outcome(result, log, slept) ==
    [raised |-> FALSE, exc |-> NoExc, result |-> result, log |-> log, slept |-> slept]
Escapes(e, log) ==
    [raised |-> TRUE, exc |-> e, result |-> Result(FALSE, NoMsg, NoneId), log |-> log, slept |-> 0]

MsgLocked == Msg("Post is locked and does not allow comments", 0, << >>)
MsgForbidden == Msg("Forbidden: You may be banned from this subreddit or lack permissions", 0, << >>)
MsgRateLimited == Msg("Rate limited: Too many requests. Please wait before posting again", 0, << >>)

\* reddit_client.py:181, the call of validate_comment and what it logs
validation_log(comment_text, v) ==
    (IF v.oracle_calls > 0 THEN <<Ev("oracle_validate", comment_text, TRUE)>> ELSE << >>)
    \o <<Ev("validate", comment_text, v.ok)>>

\* a faulty variant: the verdict is obtained but not consulted
post_comment_try_unchecked(comment_text, validate, env) ==
    IF env.sub.kind = "raise"
    THEN Escapes(env.sub.exc, <<Ev("fetch", << >>, FALSE)>>)
    ELSE Bind(IF validate THEN validate_comment(comment_text, env.val)
                          ELSE Verdict(TRUE, NoMsg, 0),
              LAMBDA v :
         Bind(<<Ev("fetch", << >>, TRUE)>>
                \o (IF validate THEN validation_log(comment_text, v) ELSE << >>),
              LAMBDA log :
             IF env.sub.locked
             THEN Outcome(Result(FALSE, MsgLocked, NoneId), log, 0)
             ELSE IF env.reply.kind = "raise"
                  THEN Escapes(env.reply.exc, log \o <<Ev("submit", comment_text, FALSE)>>)
                  ELSE Outcome(Result(TRUE, NoMsg, NewCommentId),
                               log \o <<Ev("submit", comment_text, TRUE),
                                        Ev("sleep", << >>, TRUE)>>,
                               RATE_LIMIT_DELAY)))

\* a faulty variant: the reply is sent without looking at submission.locked
post_comment_try_ignoring_lock(comment_text, validate, env) ==
    IF env.sub.kind = "raise"
    THEN Escapes(env.sub.exc, <<Ev("fetch", << >>, FALSE)>>)
    ELSE Bind(IF validate THEN validate_comment(comment_text, env.val)
                          ELSE Verdict(TRUE, NoMsg, 0),
              LAMBDA v :
         Bind(<<Ev("fetch", << >>, TRUE)>>
                \o (IF validate THEN validation_log(comment_text, v) ELSE << >>),
              LAMBDA log :
             IF validate /\ ~v.ok
             THEN Outcome(Result(FALSE, Prefixed("Comment validation failed: ", v.reason), NoneId),
                          log, 0)
             ELSE IF env.reply.kind = "raise"
                  THEN Escapes(env.reply.exc, log \o <<Ev("submit", comment_text, FALSE)>>)
                  ELSE Outcome(Result(TRUE, NoMsg, NewCommentId),
                               log \o <<Ev("submit", comment_text, TRUE),
                                        Ev("sleep", << >>, TRUE)>>,
                               RATE_LIMIT_DELAY)))

\* reddit_client.py:174-210, the try block of post_comment
post_comment_try(comment_text, validate, env) ==
    IF env.sub.kind = "raise"
    THEN Escapes(env.sub.exc, <<Ev("fetch", << >>, FALSE)>>)
    ELSE Bind(IF validate THEN validate_comment(comment_text, env.val)
                          ELSE Verdict(TRUE, NoMsg, 0),
              LAMBDA v :
         Bind(<<Ev("fetch", << >>, TRUE)>>
                \o (IF validate THEN validation_log(comment_text, v) ELSE << >>),
              LAMBDA log :
             IF validate /\ ~v.ok
             THEN Outcome(Result(FALSE, Prefixed("Comment validation failed: ", v.reason), NoneId),
                          log, 0)
             ELSE IF env.sub.locked
                  THEN Outcome(Result(FALSE, MsgLocked, NoneId), log, 0)
                  ELSE IF env.reply.kind = "raise"
                       THEN Escapes(env.reply.exc, log \o <<Ev("submit", comment_text, FALSE)>>)
                       ELSE Outcome(Result(TRUE, NoMsg, NewCommentId),
                                    log \o <<Ev("submit", comment_text, TRUE),
                                             Ev("sleep", << >>, TRUE)>>,
                                    RATE_LIMIT_DELAY)))

\* reddit_client.py:162-224, try/except
post_comment(comment_text, validate, env) ==
    Bind(post_comment_try(comment_text, validate, env), LAMBDA r :
        IF ~r.raised THEN r
        ELSE CASE r.exc.type = "Forbidden" ->
                    Outcome(Result(FALSE, MsgForbidden, NoneId), r.log, 0)
               [] r.exc.type = "TooManyRequests" ->
                    Outcome(Result(FALSE, MsgRateLimited, NoneId), r.log, 0)
               [] OTHER ->
                    Outcome(Result(FALSE, MsgText(r.exc.text), NoneId), r.log, 0))

\* a faulty variant: the synthesizer's text is posted whatever it begins with
generate_and_post_comment_try_unguarded(env) ==
    IF env.sub.kind = "raise"
    THEN Escapes(env.sub.exc, <<Ev("fetch", << >>, FALSE)>>)
    ELSE Bind(generate_comment(env.gen), LAMBDA generated_comment :
         Bind(<<Ev("fetch", << >>, TRUE),
                Ev("oracle_generate", generated_comment, env.gen.kind = "content")>>,
              LAMBDA log :
             Bind(post_comment(generated_comment, TRUE, env.post),
                  LAMBDA p : [p EXCEPT !.log = log \o p.log])))

\* reddit_client.py:237-264, the try block of generate_and_post_comment
generate_and_post_comment_try(env) ==
    IF env.sub.kind = "raise"
    THEN Escapes(env.sub.exc, <<Ev("fetch", << >>, FALSE)>>)
    ELSE Bind(generate_comment(env.gen), LAMBDA generated_comment :
         Bind(<<Ev("fetch", << >>, TRUE),
                Ev("oracle_generate", generated_comment, env.gen.kind = "content")>>,
              LAMBDA log :
             IF StartsWith(generated_comment, S_Error)
             THEN Outcome(Result(FALSE, MsgText(generated_comment), NoneId), log, 0)
             ELSE Bind(post_comment(generated_comment, TRUE, env.post),
                       LAMBDA p : [p EXCEPT !.log = log \o p.log])))

\* reddit_client.py:226-268, try/except
generate_and_post_comment(env) ==
    Bind(generate_and_post_comment_try(env), LAMBDA r :
        IF ~r.raised THEN r
        ELSE Outcome(Result(FALSE, MsgText(r.exc.text), NoneId), r.log, 0))

(***************************************************************************)
(* Inputs of the validator harness.                                        *)
(***************************************************************************)
Repeat(c, n) == [i \in 1..n |-> c]

T_Short == <<"s","h","o","r","t">>
T_Nine == <<"n","i","n","e","c","h","a","r","s">>
T_Ten == <<"t","e","n"," ","c","h","a","r","s","!">>
T_Padded == <<" "," ","h","i"," ","t","h","e","r","e"," "," ","\n">>
T_Good == <<"N","i","c","e"," ","p","o","s","t",","," ","t","h","a","n","k","s","!">>

CommentTexts ==
    { << >>, T_Short, T_Nine, T_Ten, T_Padded, T_Good,
      T_Nine \o Repeat(" ", 3),
      T_Nine \o <<"\f", "\\xa0">>,
      Repeat("x", MAX_COMMENT_LENGTH),
      Repeat("x", MAX_COMMENT_LENGTH + 1),
      Repeat(" ", MAX_COMMENT_LENGTH + 1),
      Repeat(" ", MAX_COMMENT_LENGTH - 8) \o T_Nine,
      Repeat(" ", MAX_COMMENT_LENGTH - 9) \o T_Ten }

R_ValidPadded == <<" ","V","A","L","I","D","\n">>
R_ValidTail == <<"V","A","L","I","D"," ","-"," ","f","i","n","e">>
R_InvalidSpam == <<"I","N","V","A","L","I","D",":"," ","t","o","o"," ","s","p","a","m","m","y">>
R_InvalidPadded == <<"\n","I","N","V","A","L","I","D",":"," "," ","r","u","d","e"," "," ","\n">>
R_InvalidNested == <<"I","N","V","A","L","I","D",":"," ","s","a","y","s"," ","I","N","V","A","L","I","D",":"," ","t","w","i","c","e">>
R_FreeValid == <<"T","h","e"," ","c","o","m","m","e","n","t"," ","i","s"," ","v","a","l","i","d",".">>
R_FreeInvalid == <<"T","h","i","s"," ","i","s"," ","i","n","v","a","l","i","d">>
R_FreeUpper == <<"S","e","e","m","s"," ","V","a","l","i","d"," ","t","o"," ","m","e">>
R_FreeNo == <<"N","o","t"," ","a","c","c","e","p","t","a","b","l","e">>
R_ValidNextLine == <<"\\x85","V","A","L","I","D","\\x0b">>
E_Quota == <<"q","u","o","t","a"," ","e","x","c","e","e","d","e","d">>

ValidatorResponses ==
    { S_VALID, R_ValidPadded, R_ValidNextLine, R_ValidTail, R_InvalidSpam, R_InvalidPadded,
      R_InvalidNested, S_INVALID, R_FreeValid, R_FreeInvalid, R_FreeUpper, R_FreeNo, << >> }

ValidatorOracle ==
    {OracleSays(t) : t \in ValidatorResponses} \cup {OracleRaises(E_Quota), OracleNone}

(***************************************************************************)
(* Content items and the Gateway's listing read.                           *)
(***************************************************************************)
Post(id, title, selftext, score, locked, over_18, num_comments) ==
    [id |-> id, title |-> title, selftext |-> selftext, score |-> score,
     locked |-> locked, over_18 |-> over_18, num_comments |-> num_comments]

ListOk(page) == [kind |-> "ok", page |-> page, exc |-> NoExc]
ListRaises(e) == [kind |-> "raise", page |-> << >>, exc |-> e]

Min(a, b) == IF a <= b THEN a ELSE b
Max(a, b) == IF a >= b THEN a ELSE b

\* seq[:n]
Slice(seq, n) ==
    IF n >= 0 THEN SubSeq(seq, 1, Min(n, Len(seq)))
    ELSE SubSeq(seq, 1, Max(0, Len(seq) + n))

S_hot == <<"h","o","t">>
S_new == <<"n","e","w">>
S_top == <<"t","o","p">>
S_rising == <<"r","i","s","i","n","g">>
SortMethods == {S_hot, S_new, S_top, S_rising}
S_SubredditR == <<"S","u","b","r","e","d","d","i","t"," ","r","/">>
S_DoesNotExist == <<" ","d","o","e","s"," ","n","o","t"," ","e","x","i","s","t">>
S_AccessForbidden == <<"A","c","c","e","s","s"," ","f","o","r","b","i","d","d","e","n"," ","t","o"," ","r","/">>
S_InvalidSort == <<"I","n","v","a","l","i","d"," ","s","o","r","t"," ","m","e","t","h","o","d",":"," ">>
S_EmptyName == <<"S","u","b","r","e","d","d","i","t"," ","n","a","m","e"," ","c","a","n","n","o","t"," ","b","e"," ","e","m","p","t","y">>
S_BadFormat == <<"I","n","v","a","l","i","d"," ","s","u","b","r","e","d","d","i","t"," ","n","a","m","e"," ","f","o","r","m","a","t">>

\* reddit_client.py:59, ValueError(result): the text of the reason
name_error(reason) ==
    Exc("ValueError", IF reason = MsgEmptyName THEN S_EmptyName ELSE S_BadFormat)

\* reddit_client.py:77-105: the items whose post_info passes validate_post_data
RECURSIVE valid_posts(_)
valid_posts(page) ==
    IF Len(page) = 0 THEN << >>
    ELSE Bind(validate_post_data(Item(TRUE, FALSE, page[1].title, TRUE, page[1].id)),
              LAMBDA v : IF ~v.raised /\ v.ok THEN <<page[1]>> ELSE << >>)
         \o valid_posts(Tail(page))

\* what the call gives its caller; reads is the number of listing requests
\* the Gateway received
FetchRaised(e, reads) == [raised |-> TRUE, exc |-> e, posts |-> << >>, reads |-> reads]
Fetched(items, reads) == [raised |-> FALSE, exc |-> NoExc, posts |-> items, reads |-> reads]

\* reddit_client.py:41-116: the name is checked, then the sort method, both
\* before the Gateway is asked anything.  The listing is lazy and yields at
\* most limit items: with a limit of 0 the loop at line 77 ends before any
\* request is sent.  A Redirect or Forbidden of the Gateway is raised as a
\* ValueError, any other exception as it is
get_subreddit_posts(subreddit_name, sort_by, listing, limit) ==
    Bind(validate_subreddit_name(subreddit_name), LAMBDA v :
        IF ~v.ok THEN FetchRaised(name_error(v.text), 0)
        ELSE IF sort_by \notin SortMethods
        THEN FetchRaised(Exc("ValueError", S_InvalidSort \o sort_by), 0)
        ELSE IF limit = 0 THEN Fetched(<< >>, 0)
        ELSE IF listing.kind = "raise"
        THEN CASE listing.exc.type = "Redirect" ->
                    FetchRaised(Exc("ValueError",
                                    S_SubredditR \o v.text.text \o S_DoesNotExist), 1)
               [] listing.exc.type = "Forbidden" ->
                    FetchRaised(Exc("ValueError", S_AccessForbidden \o v.text.text), 1)
               [] OTHER -> FetchRaised(listing.exc, 1)
        ELSE Fetched(valid_posts(Slice(listing.page, limit)), 1))

(***************************************************************************)
(* RedditBot (reddit_bot.py).                                              *)
(***************************************************************************)
PACING_SLEEP == 10
POLL_SLEEP == 300
BACKOFF_SLEEP == 60
COMMENT_CAP == 100
MONITOR_LIMIT == 10
SECONDS_PER_MINUTE == 60

\* a faulty variant: an item with exactly 100 comments passes
is_eligible_inclusive(post, min_score) ==
    /\ post.score >= min_score
    /\ ~post.locked
    /\ ~post.over_18
    /\ post.num_comments <= COMMENT_CAP

\* reddit_bot.py:126-129
is_eligible(post, min_score) ==
    /\ post.score >= min_score
    /\ ~post.locked
    /\ ~post.over_18
    /\ post.num_comments < COMMENT_CAP

\* reddit_bot.py:124-130
RECURSIVE eligible_posts(_, _)
eligible_posts(posts, min_score) ==
    IF Len(posts) = 0 THEN << >>
    ELSE (IF is_eligible(posts[1], min_score) THEN <<posts[1]>> ELSE << >>)
         \o eligible_posts(Tail(posts), min_score)

\* reddit_bot.py:250
post_text(post) == Lower(post.title \o <<" ">> \o post.selftext)

\* a faulty variant: the keyword is compared as written, without lowering
keyword_matches_case_sensitive(keyword, post) ==
    Contains(post.title \o <<" ">> \o post.selftext, keyword)

\* reddit_bot.py:253
keyword_matches(keyword, post) == Contains(post_text(post), Lower(keyword))

\* reddit_bot.py:145-147 and 163-168: one entry of the result list
Entry(result, post) ==
    [success |-> result.success, error |-> result.error, comment_id |-> result.comment_id,
     post_id |-> post.id, post_title |-> post.title]
AbsentKey == "absent"

\* reddit_bot.py:254-260 and 272: one KeywordMatch
NoCommentResult == [present |-> FALSE, result |-> Result(FALSE, NoMsg, NoneId)]
CommentResult(r) == [present |-> TRUE, result |-> r]
MatchInfo(post, keyword, at, cycle, comment_result) ==
    [post_id |-> post.id, title |-> post.title, keyword |-> keyword,
     matched_at |-> at, cycle |-> cycle, comment_result |-> comment_result]

\* reddit_bot.py:89, 117, 151, 155, 162, 175, 242, 268, 279: the events the
\* session counters are about
NoTally == [read_items |-> 0, posted |-> 0, caught |-> 0, reads |-> 0, runs |-> 0]
Read(t, n) == [t EXCEPT !.read_items = @ + n]
Posted(t) == [t EXCEPT !.posted = @ + 1]
Caught(t) == [t EXCEPT !.caught = @ + 1]
\* a comment attempt as the bot sees it: it failed or succeeded (or raised,
\* which the client's call never does)
Attempted(t, out) ==
    IF out.raised THEN Caught(t)
    ELSE IF out.result.success THEN Posted(t) ELSE Caught(t)

\* one more reading operation (retrieve, search, statistics) begun
Began(t) == [t EXCEPT !.reads = @ + 1]
\* one more operation that comments, monitors or schedules begun
Ran(t) == [t EXCEPT !.runs = @ + 1]

\* reddit_bot.py:299-314.  The rate is the exact quotient num/den of the
\* float expression (comments_posted / max(1, comments_posted + errors)) * 100;
\* the runtime is counted in seconds since the bot was constructed at time 0
Ratio(num, den) == [num |-> num, den |-> den]
\* a faulty variant: the denominator is not kept away from zero
success_rate_unguarded(st) ==
    Ratio(st.comments_posted * 100, st.comments_posted + st.errors)
success_rate(st) ==
    Ratio(st.comments_posted * 100, Max(1, st.comments_posted + st.errors))
get_bot_stats(st, t) ==
    [comments_posted |-> st.comments_posted, posts_retrieved |-> st.posts_retrieved,
     errors |-> st.errors, success_rate |-> success_rate(st), runtime_seconds |-> t]
NoSnapshot ==
    [comments_posted |-> 0, posts_retrieved |-> 0, errors |-> 0,
     success_rate |-> Ratio(0, 1), runtime_seconds |-> 0]

\* what one operation has used of the Gateway, the Oracle and the clock
CountEv(log, kinds) == Cardinality({i \in 1..Len(log) : log[i].ev \in kinds})
NoneUsed == [fetch |-> 0, oracle |-> 0, submit |-> 0, sleep |-> 0]
UsedBy(u, log) ==
    [fetch  |-> u.fetch + CountEv(log, {"fetch"}),
     oracle |-> u.oracle + CountEv(log, {"oracle_generate", "oracle_validate"}),
     submit |-> u.submit + CountEv(log, {"submit"}),
     sleep  |-> u.sleep + CountEv(log, {"sleep"})]

(***************************************************************************)
(* Bounds and inputs.                                                      *)
(***************************************************************************)
MaxComments == 2
MaxReads == 2
MaxMinutes == 6
MaxRuns == 1
MaxTicks == 2

Title1 == <<"P","y","t","h","o","n"," ","t","i","p","s">>
Body1 == <<"u","s","e"," ","v","e","n","v">>
Title2 == <<"R","u","s","t"," ","n","e","w","s">>
Body2 == <<"\\xe9","c","o","l","e"," ","d","u"," ","s","o","i","r">>
Title3 == <<"W","h","y"," ","p","y">>
Body3 == <<"t","h","o","n"," ","r","o","c","k","s">>
K_python == <<"p","y","t","h","o","n">>
K_PY == <<"P","Y">>
K_ECOLE == <<"\\xc9","C","O","L","E">>

P1 == Post("p1", Title1, Body1, 5, FALSE, FALSE, 3)
P2 == Post("p2", Title2, Body2, -1, FALSE, FALSE, 0)
P3 == Post("p3", Title3, Body3, 20, FALSE, FALSE, 99)
P4 == Post("p4", Title2, Body1, 7, TRUE, FALSE, 1)
P5 == Post("p5", Title1, << >>, 9, FALSE, TRUE, 2)
P6 == Post("p6", Title3, << >>, 50, FALSE, FALSE, 100)

E_Timeout == Exc("Exception", <<"t","i","m","e","d"," ","o","u","t">>)
E_Forbidden == Exc("Forbidden", <<"4","0","3">>)
E_TooMany == Exc("TooManyRequests", <<"4","2","9">>)
E_Redirect == Exc("Redirect", <<"3","0","2">>)

AutoListings ==
    {ListOk(pg) : pg \in {<< >>, <<P1>>, <<P3, P1>>, <<P1, P2, P3>>, <<P4, P1, P5>>,
                          <<P6, P3, P2, P1>>}}
    \cup {ListRaises(E_Timeout)}
MinScores == {0, 5, 6}

MonitorListings ==
    {ListOk(pg) : pg \in {<< >>, <<P1>>, <<P2, P1>>, <<P3, P1>>}} \cup {ListRaises(E_Timeout)}
KeywordLists == {<< >>, <<K_python>>, <<K_PY, K_ECOLE>>, <<K_python, K_python>>}
Actions == {"comment", "log", "both", "post"}
\* duration_hours, counted in sixtieths of an hour: timedelta(hours=d/60)
Durations == {-1, 0, 1, MaxMinutes}

G_Good == <<"G","r","e","a","t"," ","p","o","i","n","t",","," ","t","h","a","n","k","s"," ","f","o","r"," ","s","h","a","r","i","n","g","!">>
G_HereIntro == <<"H","e","r","e"," ","i","s"," ","a"," ","c","o","m","m","e","n","t",":","\n","G","r","e","a","t"," ","p","o","i","n","t","!","\n","\n"," "," ","T","h","a","n","k","s"," ","f","o","r"," ","s","h","a","r","i","n","g",".">>
G_Short == <<"N","i","c","e",".">>
G_ErrorTopic == <<"E","r","r","o","r"," ","h","a","n","d","l","i","n","g"," ","l","i","k","e"," ","t","h","i","s"," ","i","s"," ","a"," ","g","o","o","d"," ","h","a","b","i","t",".">>

GeneratorOracle ==
    {OracleSays(t) : t \in {G_Good, G_HereIntro, G_Short, G_ErrorTopic}}
    \cup {OracleRaises(E_Quota), OracleNone}

\* further responses the synthesizer's clean-up is called with
G_IndentedHere == <<"G","r","e","a","t"," ","p","o","i","n","t","!","\n"," "," ","H","e","r","e"," ","i","s"," ","w","h","y"," ","i","t"," ","m","a","t","t","e","r","s",".">>
G_TabbedMeta == <<"N","i","c","e",".","\n","\t","I"," ","g","e","n","e","r","a","t","e","d"," ","i","t">>
G_AllMeta == <<"H","e","r","e"," ","i","s"," ","a"," ","c","o","m","m","e","n","t",":","\n","\n","T","h","i","s"," ","c","o","m","m","e","n","t"," ","i","s"," ","s","h","o","r","t">>
G_MetaNewline == <<"H","e","r","e"," ","i","s"," ","a"," ","c","o","m","m","e","n","t",":","\n">>
G_PaddedMeta == <<" ","H","e","r","e"," ","i","s"," ","o","n","e","\n","I"," ","g","e","n","e","r","a","t","e","d"," ","t","h","i","s">>
G_Blank == <<" "," ","\n">>
CleanupResponses ==
    {G_IndentedHere, G_TabbedMeta, G_AllMeta, G_MetaNewline, G_PaddedMeta, G_Blank, << >>, S_Here}
PipelineValidatorOracle ==
    {OracleSays(S_VALID), OracleSays(R_InvalidSpam), OracleSays(R_FreeInvalid),
     OracleRaises(E_Quota)}

PostEnv(sub, val, reply) == [sub |-> sub, val |-> val, reply |-> reply]
PostEnvs ==
    [sub : {FetchOk(FALSE), FetchOk(TRUE), FetchRaises(E_Forbidden), FetchRaises(E_Timeout)},
     val : PipelineValidatorOracle,
     reply : {ReplyOk, ReplyRaises(E_Forbidden), ReplyRaises(E_TooMany), ReplyRaises(E_Timeout)}]
GenPostEnv(sub, gen, post) == [sub |-> sub, gen |-> gen, post |-> post]
GenPostEnvs ==
    [sub : {FetchOk(FALSE), FetchRaises(E_Timeout)}, gen : GeneratorOracle, post : PostEnvs]
DirectTexts == {T_Good, T_Short, S_ErrorGenerating \o E_Quota}

\* one comment attempt as the bot sees it: how the Gateway and the Oracle
\* answer the client call.  The call always returns: generate_and_post_comment
\* turns every Exception into a failure result (reddit_client.py:266-268)
Attempt(env) == [env |-> env]
EnvAllGood == GenPostEnv(FetchOk(FALSE), OracleSays(G_Good),
                         PostEnv(FetchOk(FALSE), OracleSays(S_VALID), ReplyOk))
AttemptEnvs ==
    { Attempt(EnvAllGood),
      Attempt([EnvAllGood EXCEPT !.gen = OracleSays(G_HereIntro),
                                               !.post.val = OracleSays(R_FreeInvalid)]),
      Attempt([EnvAllGood EXCEPT !.gen = OracleRaises(E_Quota)]),
      Attempt([EnvAllGood EXCEPT !.gen = OracleSays(G_ErrorTopic)]),
      Attempt([EnvAllGood EXCEPT !.gen = OracleSays(G_Short)]),
      Attempt([EnvAllGood EXCEPT !.post.val = OracleSays(R_InvalidSpam)]),
      Attempt([EnvAllGood EXCEPT !.post.val = OracleRaises(E_Quota)]),
      Attempt([EnvAllGood EXCEPT !.post.sub = FetchOk(TRUE)]),
      Attempt([EnvAllGood EXCEPT !.post.reply = ReplyRaises(E_Forbidden)]),
      Attempt([EnvAllGood EXCEPT !.sub = FetchRaises(E_Timeout)]),
      Attempt([EnvAllGood EXCEPT !.post.reply = ReplyRaises(E_Timeout)]) }
\* the Gateway and Oracle behaviour held fixed during one monitoring call
MonitorWorlds ==
    { Attempt(EnvAllGood),
      Attempt([EnvAllGood EXCEPT !.gen = OracleRaises(E_Quota)]),
      Attempt([EnvAllGood EXCEPT !.post.val = OracleSays(R_InvalidSpam)]),
      Attempt([EnvAllGood EXCEPT !.post.reply = ReplyRaises(E_Timeout)]) }

\* the names and the items the two structural checks are called with
N_python == <<"p","y","t","h","o","n">>
N_r_python == <<"r","/","p","y","t","h","o","n">>
N_R_python == <<"R","/","p","y","t","h","o","n">>
N_ab == <<"a","b">>
N_abc == <<"a","b","c">>
N_r_ab == <<"r","/","a","b">>
N_r_only == <<"r","/">>
N_dash == <<"p","y","-","t","h","o","n">>
N_Py_3 == <<"P","y","_","3">>
N_inner == <<"p","o","l","r","/","i","t","i","c","s">>
N_twice == <<"r","/","r","/","a","b","c">>
N_newline == <<"p","y","t","h","o","n","\n">>
N_space == <<"m","y"," ","s","u","b">>
N_u_python == <<"u","/","p","y","t","h","o","n">>
N_21 == Repeat("a", NAME_MAX)
N_22 == Repeat("a", NAME_MAX + 1)
N_Ecole == <<"\\xc9","c","o","l","e">>
N_r_cafe_fr == <<"r","/","c","a","f","\\xe9","_","f","r">>
SubredditNames ==
    { << >>, N_python, N_r_python, N_R_python, N_ab, N_abc, N_r_ab, N_r_only,
      N_dash, N_Py_3, N_inner, N_twice, N_newline, N_space, N_u_python, N_21, N_22,
      N_Ecole, N_r_cafe_fr }

\* the arguments of auto_comment_on_posts that reach the listing read, and
\* the Gateway's answer to it
S_best == <<"b","e","s","t">>
Request(subreddit_name, sort_by, listing) ==
    [subreddit_name |-> subreddit_name, sort_by |-> sort_by, listing |-> listing]
NoRequest == Request(<< >>, << >>, ListOk(<< >>))
\* what the Gateway answers when a scheduled job asks for the listing
JobListings == {ListOk(<<P1>>), ListOk(<<P1, P2, P3>>), ListRaises(E_Timeout)}
AutoRequests ==
    {Request(N_python, S_new, l) :
        l \in AutoListings \cup {ListRaises(E_Redirect), ListRaises(E_Forbidden)}}
    \cup { Request(N_r_python, S_hot, ListOk(<<P1>>)),
           Request(N_ab, S_new, ListOk(<<P1>>)),
           Request(N_Ecole, S_new, ListOk(<<P1>>)),
           Request(<< >>, S_new, ListOk(<<P1>>)),
           Request(N_python, S_best, ListOk(<<P1>>)) }

T_Blank == <<" "," ","\n">>
PostItems ==
    {Item(ht, FALSE, t, hi, i) : ht \in BOOLEAN, t \in {<< >>, T_Blank, Title1}, hi \in BOOLEAN, i \in {"", "p1"}}
    \cup {Item(TRUE, TRUE, << >>, TRUE, "p1")}

(***************************************************************************)
(* State.                                                                  *)
(*   vIn, vOut      the validator harness: drawn inputs, the value returned*)
(*   pc             where the session is: idle, inside auto_comment_on_    *)
(*                  posts, inside monitor_subreddit, asked whether the     *)
(*                  scheduler is to start, inside run_scheduler before or  *)
(*                  after run_pending chose the due jobs, or done          *)
(*   now            the wall clock, in seconds; it advances in time.sleep  *)
(*   stats          RedditBot.stats                                        *)
(*   call           the last client call: its arguments, outcome and log   *)
(*   ret            what the bot operation returned or raised              *)
(*   tally          what the bot has done that its counters are to reflect:*)
(*                  items read in listings, comments submitted, failures   *)
(*                  caught                                                 *)
(*   used           Gateway reads, Oracle calls, submits and sleeps of the *)
(*                  bot operation at hand so far.  A job that run_pending  *)
(*                  runs is an operation of its own; after the scheduler's *)
(*                  sleep it holds the sleeps of run_scheduler itself      *)
(*   max_comments, min_score, posts, eligible_list, idx, results           *)
(*                  locals of auto_comment_on_posts                        *)
(*   request        the community name and sort method auto_comment_on_    *)
(*                  posts was called with, and the Gateway's listing       *)
(*   keywords, action, start_time, end_time, matches, kidx                 *)
(*                  locals of monitor_subreddit (posts and idx shared)     *)
(*   world          how the Gateway and the Oracle answer a comment        *)
(*                  attempt during this monitoring call                    *)
(*   cycle          the number of the current iteration of the loop        *)
(*   failed_cycles  the iterations whose exception the loop caught         *)
(*   jobs           the jobs registered with the schedule package          *)
(*   pending        the jobs run_pending has still to run in this pass     *)
(*   ticks          the iterations of run_scheduler's loop completed       *)
(*   scheduling     the session is inside run_scheduler                    *)
(*   start          stats, tally and the clock when the operation at hand  *)
(*                  began                                                  *)
(***************************************************************************)
NotCalled == [fn |-> "none"]
NoCall == [fn |-> "none"]
NoRet == [op |-> "none", kind |-> "none", results |-> << >>, total_matches |-> 0,
          matches |-> << >>, exc |-> NoExc, total_posts |-> 0, snapshot |-> NoSnapshot]

VARIABLES vIn, vOut, pc, now, stats, call, ret, used, tally,
          max_comments, min_score, posts, eligible_list, idx, results,
          keywords, action, start_time, end_time, world, matches, kidx, cycle,
          failed_cycles, request, jobs, pending, ticks, scheduling, start

vvars == <<vIn, vOut>>
autovars == <<max_comments, min_score, eligible_list, results, request>>
monvars == <<keywords, action, start_time, end_time, world, matches, kidx, cycle,
             failed_cycles>>
schedvars == <<jobs, pending, ticks, scheduling>>
botvars == <<pc, now, stats, call, ret, used, tally, posts, idx, autovars, monvars,
             schedvars, start>>
vars == <<vvars, botvars>>

NoInput == [fn |-> "none", text |-> << >>, oracle |-> OracleNone, post |-> NoItem]

\* the counters, the events and the clock as an operation finds them
Snapshot(st, t, at) == [stats |-> st, tally |-> t, now |-> at]

\* RedditBot.__init__, reddit_bot.py:33-38
InitStats == [comments_posted |-> 0, posts_retrieved |-> 0, errors |-> 0]
InitRest ==
    /\ pc = "idle"
    /\ now = 0
    /\ call = NoCall
    /\ ret = NoRet
    /\ used = NoneUsed
    /\ tally = NoTally
    /\ max_comments = 0 /\ min_score = 0 /\ posts = << >> /\ eligible_list = << >>
    /\ idx = 1 /\ results = << >> /\ request = NoRequest
    /\ keywords = << >> /\ action = "log" /\ start_time = 0 /\ end_time = 0
    /\ failed_cycles = {}
    /\ world = Attempt(EnvAllGood)
    /\ matches = << >> /\ kidx = 1 /\ cycle = 0
    /\ jobs = << >> /\ pending = << >> /\ ticks = 0 /\ scheduling = FALSE
    /\ start = Snapshot(stats, NoTally, 0)
InitBot == stats = InitStats /\ InitRest

(***************************************************************************)
(* The validator harness: one call of a pure function on drawn inputs.     *)
(***************************************************************************)
InitV ==
    /\ vIn \in [fn : {"validate_comment"}, text : CommentTexts, oracle : ValidatorOracle,
                 post : {NoItem}]
               \cup [fn : {"generate_comment"}, text : {<< >>},
                      oracle : GeneratorOracle \cup {OracleSays(t) : t \in CleanupResponses},
                      post : {NoItem}]
               \cup [fn : {"validate_subreddit_name"}, text : SubredditNames,
                      oracle : {OracleNone}, post : {NoItem}]
               \cup [fn : {"validate_post_data"}, text : {<< >>}, oracle : {OracleNone},
                      post : PostItems]
    /\ vOut = NotCalled
    /\ InitBot

CallValidateComment ==
    /\ vIn.fn = "validate_comment"
    /\ vOut = NotCalled
    /\ vOut' = [fn |-> "validate_comment", r |-> validate_comment(vIn.text, vIn.oracle)]
    /\ UNCHANGED <<vIn, botvars>>

CallGenerateComment ==
    /\ vIn.fn = "generate_comment"
    /\ vOut = NotCalled
    /\ vOut' = [fn |-> "generate_comment", text |-> generate_comment(vIn.oracle)]
    /\ UNCHANGED <<vIn, botvars>>

CallValidateSubredditName ==
    /\ vIn.fn = "validate_subreddit_name"
    /\ vOut = NotCalled
    /\ vOut' = [fn |-> "validate_subreddit_name", r |-> validate_subreddit_name(vIn.text)]
    /\ UNCHANGED <<vIn, botvars>>

CallValidatePostData ==
    /\ vIn.fn = "validate_post_data"
    /\ vOut = NotCalled
    /\ vOut' = [fn |-> "validate_post_data", r |-> validate_post_data(vIn.post)]
    /\ UNCHANGED <<vIn, botvars>>

NextV ==
    \/ CallValidateComment
    \/ CallGenerateComment
    \/ CallValidateSubredditName
    \/ CallValidatePostData

SpecV == InitV /\ [][NextV]_vars

(***************************************************************************)
(* The session, main.py:380-417: one operation after another.  Between two *)
(* operations pc is idle (nothing has run yet) or done.  When an operation *)
(* begins, the locals of the one before are gone.                          *)
(***************************************************************************)
Between == pc \in {"idle", "done"}
CanRun == Between /\ tally.runs < MaxRuns
CanRead == Between /\ tally.reads < MaxReads

FreshAuto ==
    /\ max_comments' = 0 /\ min_score' = 0 /\ eligible_list' = << >> /\ results' = << >>
    /\ request' = NoRequest
FreshMonitor ==
    /\ keywords' = << >> /\ action' = "log" /\ start_time' = 0 /\ end_time' = 0
    /\ world' = Attempt(EnvAllGood)
    /\ matches' = << >> /\ kidx' = 1 /\ cycle' = 0 /\ failed_cycles' = {}
FreshLocals ==
    /\ call' = NoCall
    /\ posts' = << >> /\ idx' = 1
    /\ FreshAuto
    /\ FreshMonitor

(***************************************************************************)
(* The client called directly, main.py:277 and 280.                        *)
(***************************************************************************)
ClientCall(fn, text, validate, env, out) ==
    [fn |-> fn, text |-> text, validate |-> validate, env |-> env, out |-> out]

\* RedditClient.post_comment(post_id, comment_text, validate)
CallPostComment ==
    /\ CanRun
    /\ \E text \in DirectTexts, validate \in BOOLEAN, env \in PostEnvs :
         \E out \in {post_comment(text, validate, env)} :
             /\ call' = ClientCall("post_comment", text, validate,
                                   GenPostEnv(FetchOk(FALSE), OracleNone, env), out)
             /\ now' = now + out.slept
             /\ used' = UsedBy(NoneUsed, out.log)
    /\ tally' = Ran(tally)
    /\ start' = Snapshot(stats, tally, now)
    /\ ret' = NoRet
    /\ posts' = << >> /\ idx' = 1 /\ FreshAuto /\ FreshMonitor
    /\ pc' = "done"
    /\ UNCHANGED <<vvars, stats, schedvars>>

\* RedditClient.generate_and_post_comment(post_id, subreddit_name)
CallGenerateAndPost ==
    /\ CanRun
    /\ \E env \in GenPostEnvs :
         \E out \in {generate_and_post_comment(env)} :
             /\ call' = ClientCall("generate_and_post_comment", << >>, TRUE, env, out)
             /\ now' = now + out.slept
             /\ used' = UsedBy(NoneUsed, out.log)
    /\ tally' = Ran(tally)
    /\ start' = Snapshot(stats, tally, now)
    /\ ret' = NoRet
    /\ posts' = << >> /\ idx' = 1 /\ FreshAuto /\ FreshMonitor
    /\ pc' = "done"
    /\ UNCHANGED <<vvars, stats, schedvars>>

\* a faulty variant: a call that did not succeed is made a second time
attempt_call_with_retry(a) ==
    ClientCall("generate_and_post_comment", << >>, TRUE, a.env,
               Bind(generate_and_post_comment(a.env), LAMBDA r :
                   IF r.result.success THEN r ELSE [r EXCEPT !.log = r.log \o r.log]))

\* the client call a bot loop makes for one item
attempt_call(a) ==
    ClientCall("generate_and_post_comment", << >>, TRUE, a.env,
               generate_and_post_comment(a.env))

(***************************************************************************)
(* RedditBot.auto_comment_on_posts, reddit_bot.py:99-176.                  *)
(***************************************************************************)
ReturnedList(rs) ==
    [NoRet EXCEPT !.op = "auto_comment_on_posts", !.kind = "returned", !.results = rs]
\* a faulty variant: a failed fetch is answered with an empty result list
RaisedOut_as_empty_list(e) == ReturnedList(<< >>)

\* reddit_bot.py:173-176
RaisedOut(e) ==
    [NoRet EXCEPT !.op = "auto_comment_on_posts", !.kind = "raised", !.exc = e]

\* a faulty variant: the loop stops after the first attempt that fails
to_attempt_until_failure ==
    IF \E i \in 1..Len(results) : ~results[i].success
    THEN Slice(eligible_list, Min(Len(results), max_comments))
    ELSE Slice(eligible_list, max_comments)

\* eligible_posts[:max_comments]
to_attempt == Slice(eligible_list, max_comments)

\* a faulty variant: an attempt that returned a failure is not counted
attempt_counted_on_success_only(st, success) ==
    IF success THEN [st EXCEPT !.comments_posted = @ + 1] ELSE st

\* reddit_bot.py:149-155
attempt_counted(st, success) ==
    IF success THEN [st EXCEPT !.comments_posted = @ + 1]
    ELSE [st EXCEPT !.errors = @ + 1]

\* a faulty variant: the pacing delay follows a successful attempt only
paced_on_success_only(at, out) ==
    at + out.slept + (IF out.result.success THEN PACING_SLEEP ELSE 0)

\* reddit_bot.py:140-158: the clock when an attempt that returned has been
\* recorded: the client's own sleep, then time.sleep(10)
paced(at, out) == at + out.slept + PACING_SLEEP

\* where auto_comment_on_posts returns to: the session, or the job that
\* run_pending called (reddit_bot.py:392-401, which swallows what it raises)
after_auto == IF scheduling THEN "sched_jobs" ELSE "done"

\* reddit_bot.py:113-134 and 173-176: the fetch, the filter; a failed fetch
\* re-raised.  t is the tally at the call
auto_begins(mc, ms, rq, t) ==
    /\ \E fetched \in {get_subreddit_posts(rq.subreddit_name, rq.sort_by, rq.listing, mc * 2)} :
         /\ used' = [NoneUsed EXCEPT !.fetch = fetched.reads]
         /\ tally' = IF fetched.raised THEN Caught(t) ELSE Read(t, Len(fetched.posts))
         /\ IF fetched.raised
            THEN /\ stats' = [stats EXCEPT !.errors = @ + 1]
                 /\ ret' = RaisedOut(fetched.exc)
                 /\ pc' = after_auto
                 /\ posts' = << >>
                 /\ eligible_list' = << >>
            ELSE /\ posts' = fetched.posts
                 /\ eligible_list' = eligible_posts(fetched.posts, ms)
                 /\ pc' = "auto_loop"
                 /\ stats' = stats
                 /\ ret' = NoRet
    /\ request' = rq
    /\ max_comments' = mc
    /\ min_score' = ms
    /\ start' = Snapshot(stats, t, now)
    /\ idx' = 1
    /\ results' = << >>
    /\ call' = NoCall
    /\ FreshMonitor
    /\ UNCHANGED <<vvars, now>>

\* main.py:131 and 376: the operation called from the session
AutoStart ==
    /\ CanRun
    /\ \E mc \in 0..MaxComments, ms \in MinScores, rq \in AutoRequests :
         auto_begins(mc, ms, rq, Ran(tally))
    /\ UNCHANGED schedvars

\* reddit_bot.py:136-168: one iteration of the loop over the eligible items
AutoAttempt ==
    /\ pc = "auto_loop"
    /\ idx <= Len(to_attempt)
    /\ \E a \in AttemptEnvs, post \in {to_attempt[idx]} :
         \E c \in {attempt_call(a)} :
             /\ call' = c
             /\ tally' = Attempted(tally, c.out)
             /\ IF c.out.raised
                THEN \* except Exception, lines 160-168: no pacing sleep on this
                     \* path, which the client's call, never raising, does not take
                     /\ stats' = [stats EXCEPT !.errors = @ + 1]
                     /\ results' = Append(results,
                           Entry(Result(FALSE, MsgText(c.out.exc.text), AbsentKey), post))
                     /\ now' = now
                     /\ used' = UsedBy(used, c.out.log)
                ELSE /\ results' = Append(results, Entry(c.out.result, post))
                     /\ stats' = attempt_counted(stats, c.out.result.success)
                     /\ now' = paced(now, c.out)
                     /\ used' = [UsedBy(used, c.out.log) EXCEPT !.sleep = @ + 1]
    /\ idx' = idx + 1
    /\ UNCHANGED <<vvars, pc, ret, posts, max_comments, min_score, eligible_list, request,
                   monvars, schedvars, start>>

\* reddit_bot.py:170-171
AutoReturn ==
    /\ pc = "auto_loop"
    /\ idx > Len(to_attempt)
    /\ ret' = ReturnedList(results)
    /\ pc' = after_auto
    /\ UNCHANGED <<vvars, now, stats, call, used, tally, posts, idx, autovars, monvars,
                   schedvars, start>>

(***************************************************************************)
(* RedditBot.monitor_subreddit, reddit_bot.py:218-297.                     *)
(***************************************************************************)
\* faulty variants of the loop test: an iteration at the deadline itself, and
\* a first iteration whatever the deadline
loop_continues_inclusive == now <= end_time
loop_continues_once == cycle = 0 \/ now < end_time

\* a faulty variant of the handler: the exception leaves the monitoring call
cycle_failed_propagates(e) ==
    [pc |-> "done", now |-> now,
     ret |-> [NoRet EXCEPT !.op = "monitor_subreddit", !.kind = "raised", !.exc = e]]

\* reddit_bot.py:239, the loop test
loop_continues == now < end_time

\* reddit_bot.py:279-281, the handler of an exception raised in one iteration:
\* the backoff sleep, then the loop test again
cycle_failed(e) == [pc |-> "mon_check", now |-> now + BACKOFF_SLEEP, ret |-> ret]

\* reddit_bot.py:283-293
monitoring_results ==
    [NoRet EXCEPT !.op = "monitor_subreddit", !.kind = "returned",
                  !.total_matches = Len(matches), !.matches = matches]

\* reddit_bot.py:233-237
MonitorStart ==
    /\ CanRun
    /\ \E kws \in KeywordLists, act \in Actions, d \in Durations :
         /\ keywords' = kws
         /\ action' = act
         /\ start_time' = now
         /\ end_time' = now + d * SECONDS_PER_MINUTE
         /\ \E w \in MonitorWorlds :
              /\ act \notin {"comment", "both"} => w = Attempt(EnvAllGood)
              /\ world' = w
    /\ matches' = << >>
    /\ cycle' = 0
    /\ failed_cycles' = {}
    /\ kidx' = 1
    /\ idx' = 1
    /\ posts' = << >>
    /\ pc' = "mon_check"
    /\ tally' = Ran(tally)
    /\ start' = Snapshot(stats, tally, now)
    /\ used' = NoneUsed
    /\ ret' = NoRet
    /\ call' = NoCall
    /\ FreshAuto
    /\ UNCHANGED <<vvars, now, stats, schedvars>>

\* reddit_bot.py:239-246 and 276-281: the loop test and the fetch of one
\* iteration.  A failed fetch is caught: the loop sleeps the backoff.  A page
\* with nothing to scan is followed by the poll sleep at once.
MonitorPoll ==
    /\ pc = "mon_check"
    /\ loop_continues
    /\ cycle' = cycle + 1
    /\ \E listing \in MonitorListings :
         \E fetched \in {get_subreddit_posts(N_python, S_new, listing, MONITOR_LIMIT)} :
             IF fetched.raised
             THEN \E h \in {cycle_failed(fetched.exc)} :
                  /\ now' = h.now
                  /\ pc' = h.pc
                  /\ ret' = h.ret
                  /\ posts' = << >>
                  /\ failed_cycles' = failed_cycles \cup {cycle + 1}
                  /\ used' = [used EXCEPT !.fetch = @ + fetched.reads, !.sleep = @ + 1]
                  /\ tally' = Caught(tally)
             ELSE /\ posts' = fetched.posts
                  /\ tally' = Read(tally, Len(fetched.posts))
                  /\ UNCHANGED <<ret, failed_cycles>>
                  /\ IF Len(fetched.posts) = 0 \/ Len(keywords) = 0
                     THEN /\ now' = now + POLL_SLEEP
                          /\ pc' = "mon_check"
                          /\ used' = [used EXCEPT !.fetch = @ + fetched.reads,
                                                      !.sleep = @ + 1]
                     ELSE /\ now' = now
                          /\ pc' = "mon_scan"
                          /\ used' = [used EXCEPT !.fetch = @ + fetched.reads]
    /\ idx' = 1
    /\ kidx' = 1
    /\ UNCHANGED <<vvars, stats, call, autovars, keywords, action, start_time, end_time,
                   world, matches, schedvars, start>>

\* a faulty variant: every action value other than 'log' comments
acts_on_match_unless_log == action # "log"

\* reddit_bot.py:266
acts_on_match == action \in {"comment", "both"}

\* a faulty variant: a pair matched in an earlier cycle is passed over
match_found_unless_seen ==
    /\ keyword_matches(keywords[kidx], posts[idx])
    /\ ~\E i \in 1..Len(matches) :
          /\ matches[i].post_id = posts[idx].id
          /\ matches[i].keyword = keywords[kidx]
          /\ matches[i].cycle < cycle

\* a faulty variant: an item is matched once per cycle, by its first keyword
match_found_once_per_item ==
    /\ keyword_matches(keywords[kidx], posts[idx])
    /\ ~\E i \in 1..Len(matches) :
          matches[i].post_id = posts[idx].id /\ matches[i].cycle = cycle

\* reddit_bot.py:253, the test for the item and the keyword at hand
match_found == keyword_matches(keywords[kidx], posts[idx])

\* reddit_bot.py:249-277: one (item, keyword) step of the scan; after the
\* last step of the page the loop sleeps the poll interval
MonitorScan ==
    /\ pc = "mon_scan"
    /\ \E post \in {posts[idx]}, keyword \in {keywords[kidx]} :
       \E hit \in {match_found} :
       \E acts \in {hit /\ acts_on_match} :
       \E c \in {IF acts THEN attempt_call(world) ELSE call} :
       \E last \in {idx = Len(posts) /\ kidx = Len(keywords)},
          log \in {IF acts THEN c.out.log ELSE << >>},
          slept \in {IF acts THEN c.out.slept ELSE 0} :
           /\ matches' = IF ~hit THEN matches
                         ELSE Append(matches,
                                MatchInfo(post, keyword, now, cycle,
                                          IF acts /\ ~c.out.raised
                                          THEN CommentResult(c.out.result)
                                          ELSE NoCommentResult))
           /\ call' = c
           /\ tally' = IF acts THEN Attempted(tally, c.out) ELSE tally
           /\ IF last
              THEN /\ now' = now + slept + POLL_SLEEP
                   /\ pc' = "mon_check"
                   /\ idx' = 1 /\ kidx' = 1
                   /\ used' = [UsedBy(used, log) EXCEPT !.sleep = @ + 1]
              ELSE /\ now' = now + slept
                   /\ pc' = "mon_scan"
                   /\ used' = UsedBy(used, log)
                   /\ IF kidx = Len(keywords)
                      THEN idx' = idx + 1 /\ kidx' = 1
                      ELSE idx' = idx /\ kidx' = kidx + 1
    /\ UNCHANGED <<vvars, stats, ret, posts, autovars, keywords, action, start_time,
                   end_time, world, cycle, failed_cycles, schedvars, start>>

\* reddit_bot.py:239 and 283-293: the loop ends and the call returns
MonitorReturn ==
    /\ pc = "mon_check"
    /\ ~loop_continues
    /\ ret' = monitoring_results
    /\ pc' = "done"
    /\ UNCHANGED <<vvars, now, stats, call, used, tally, posts, idx, autovars, monvars,
                   schedvars, start>>

(***************************************************************************)
(* The reading operations: retrieve_subreddit_data, search_and_analyze and *)
(* get_bot_stats.                                                          *)
(***************************************************************************)
COMMENTS_SLEEP == 1

\* a faulty variant: the counter is overwritten with the size of the batch
retrieved_overwrites(st, n) == [st EXCEPT !.posts_retrieved = n]

\* reddit_bot.py:89
retrieved(st, n) == [st EXCEPT !.posts_retrieved = @ + n]

\* an item the Gateway lists with a blank title: get_subreddit_posts drops it
P_Untitled == Post("p7", T_Blank, Body1, 1, FALSE, FALSE, 0)
ReadListings ==
    {ListOk(pg) : pg \in {<< >>, <<P1>>, <<P2, P1>>, <<P_Untitled, P1>>}}
    \cup {ListRaises(E_Timeout)}
ReadLimits == {1, 2}
AnalysisOracle == {OracleSays(G_Good), OracleRaises(E_Quota)}

ReadReturned(op, n) ==
    [NoRet EXCEPT !.op = op, !.kind = "returned", !.total_posts = n]
ReadRaised(op, e) == [NoRet EXCEPT !.op = op, !.kind = "raised", !.exc = e]

\* reddit_bot.py:45-97.  With include_comments the comments of each item are
\* read; a read that fails is logged and skipped, one that returns is
\* followed by a sleep of one second
RetrieveSubredditData ==
    /\ CanRead
    /\ \E listing \in ReadListings, limit \in ReadLimits, include_comments \in BOOLEAN :
         \E fetched \in {get_subreddit_posts(N_python, S_hot, listing, limit)} :
             IF fetched.raised
             THEN /\ stats' = [stats EXCEPT !.errors = @ + 1]
                  /\ ret' = ReadRaised("retrieve_subreddit_data", fetched.exc)
                  /\ now' = now
                  /\ used' = [NoneUsed EXCEPT !.fetch = fetched.reads]
                  /\ tally' = Caught(Began(tally))
             ELSE \E n \in {Len(fetched.posts)} :
                  \E readable \in (IF include_comments THEN SUBSET (1..n) ELSE {{}}) :
                      /\ stats' = retrieved(stats, n)
                      /\ ret' = ReadReturned("retrieve_subreddit_data", n)
                      /\ now' = now + Cardinality(readable) * COMMENTS_SLEEP
                      /\ used' = [NoneUsed EXCEPT
                                    !.fetch = 1 + (IF include_comments THEN n ELSE 0),
                                    !.sleep = Cardinality(readable)]
                      /\ tally' = Read(Began(tally), n)
    /\ start' = Snapshot(stats, tally, now)
    /\ FreshLocals
    /\ pc' = "done"
    /\ UNCHANGED <<vvars, schedvars>>

\* reddit_bot.py:178-216 and 351-387: a failed search is re-raised; the
\* analysis asks the Oracle unless nothing was found, and never raises
SearchAndAnalyze ==
    /\ CanRead
    /\ \E found \in ReadListings, oracle \in AnalysisOracle :
         IF found.kind = "raise"
         THEN /\ ret' = ReadRaised("search_and_analyze", found.exc)
              /\ used' = [NoneUsed EXCEPT !.fetch = 1]
         ELSE \E posts_data \in {valid_posts(found.page)} :
              /\ ret' = ReadReturned("search_and_analyze", Len(posts_data))
              /\ used' = [NoneUsed EXCEPT !.fetch = 1,
                                          !.oracle = IF Len(posts_data) > 0 THEN 1 ELSE 0]
    /\ tally' = Began(tally)
    /\ start' = Snapshot(stats, tally, now)
    /\ FreshLocals
    /\ pc' = "done"
    /\ UNCHANGED <<vvars, now, stats, schedvars>>

\* reddit_bot.py:299-314
GetBotStats ==
    /\ CanRead
    /\ ret' = [NoRet EXCEPT !.op = "get_bot_stats", !.kind = "returned",
                            !.snapshot = get_bot_stats(stats, now)]
    /\ used' = NoneUsed
    /\ tally' = Began(tally)
    /\ start' = Snapshot(stats, tally, now)
    /\ FreshLocals
    /\ pc' = "done"
    /\ UNCHANGED <<vvars, now, stats, schedvars>>

(***************************************************************************)
(* RedditBot.schedule_auto_commenting and run_scheduler, reddit_bot.py:    *)
(* 389-411.  The schedule package keeps the registered jobs and decides by *)
(* the wall clock which of them are due when run_pending is called: that   *)
(* choice, and the order of the due jobs, belongs to the environment.      *)
(***************************************************************************)
SCHEDULER_SLEEP == 60

Job(subreddit_name, interval_hours, mc) ==
    [subreddit_name |-> subreddit_name, interval_hours |-> interval_hours,
     max_comments |-> mc]
JobNames == {N_python, N_ab}
Intervals == {6}

\* the sequences without repetition over 1..n: the due jobs, in running order
DueOrders(n) ==
    {q \in UNION {[1..k -> 1..n] : k \in 0..n} :
        \A i, j \in 1..Len(q) : i # j => q[i] # q[j]}

\* reddit_bot.py:389-404: the job is registered, nothing runs.  The session
\* then asks whether the scheduler is to start (main.py:335-347)
ScheduleAutoCommenting ==
    /\ CanRun
    /\ \E name \in JobNames, interval_hours \in Intervals, mc \in 0..MaxComments :
         jobs' = Append(jobs, Job(name, interval_hours, mc))
    /\ tally' = Ran(tally)
    /\ start' = Snapshot(stats, tally, now)
    /\ used' = NoneUsed
    /\ ret' = NoRet
    /\ FreshLocals
    /\ pc' = "scheduled"
    /\ UNCHANGED <<vvars, now, stats, pending, ticks, scheduling>>

\* main.py:347-348, the answer is no: back to the menu, the job stays
DeclineScheduler ==
    /\ pc = "scheduled"
    /\ pc' = "done"
    /\ UNCHANGED <<vvars, now, stats, call, ret, used, tally, posts, idx, autovars, monvars,
                   schedvars, start>>

\* reddit_bot.py:406-409: the loop is entered, right after a registration
\* (main.py:348-350) or on its own; it is never left
RunScheduler ==
    /\ pc = "scheduled" \/ CanRun
    /\ scheduling' = TRUE
    /\ ticks' = 0
    /\ pending' = << >>
    /\ tally' = IF pc = "scheduled" THEN tally ELSE Ran(tally)
    /\ start' = Snapshot(stats, tally, now)
    /\ used' = NoneUsed
    /\ ret' = NoRet
    /\ FreshLocals
    /\ pc' = "sched_pending"
    /\ UNCHANGED <<vvars, now, stats, jobs>>

\* reddit_bot.py:410, schedule.run_pending(): the jobs that are due
SchedulerPending ==
    /\ pc = "sched_pending"
    /\ ticks < MaxTicks
    /\ pending' \in DueOrders(Len(jobs))
    /\ pc' = "sched_jobs"
    /\ UNCHANGED <<vvars, now, stats, call, ret, used, tally, posts, idx, autovars, monvars,
                   jobs, ticks, scheduling, start>>

\* reddit_bot.py:392-401: run_pending runs the next due job, which calls
\* auto_comment_on_posts with sort_by 'new' and the default min_score
SchedulerJob ==
    /\ pc = "sched_jobs"
    /\ pending # << >>
    /\ \E job \in {jobs[Head(pending)]}, listing \in JobListings :
         auto_begins(job.max_comments, 0, Request(job.subreddit_name, S_new, listing), tally)
    /\ pending' = Tail(pending)
    /\ UNCHANGED <<jobs, ticks, scheduling>>

\* reddit_bot.py:411: no due job is left; the loop sleeps a minute
SchedulerSleep ==
    /\ pc = "sched_jobs"
    /\ pending = << >>
    /\ now' = now + SCHEDULER_SLEEP
    /\ ticks' = ticks + 1
    /\ used' = [NoneUsed EXCEPT !.sleep = ticks + 1]
    /\ start' = Snapshot(stats, tally, now + SCHEDULER_SLEEP)
    /\ ret' = NoRet
    /\ FreshLocals
    /\ pc' = "sched_pending"
    /\ UNCHANGED <<vvars, stats, tally, jobs, pending, scheduling>>

Init ==
    /\ vIn = NoInput
    /\ vOut = NotCalled
    /\ InitBot

Next ==
    \/ CallPostComment
    \/ CallGenerateAndPost
    \/ AutoStart
    \/ AutoAttempt
    \/ AutoReturn
    \/ MonitorStart
    \/ MonitorPoll
    \/ MonitorScan
    \/ MonitorReturn
    \/ RetrieveSubredditData
    \/ SearchAndAnalyze
    \/ GetBotStats
    \/ ScheduleAutoCommenting
    \/ DeclineScheduler
    \/ RunScheduler
    \/ SchedulerPending
    \/ SchedulerJob
    \/ SchedulerSleep

Spec == Init /\ [][Next]_vars

\* monitor_subreddit called in a fresh session.  The program is sequential:
\* whatever step the call can take next, it takes
NextMonitor ==
    \/ MonitorStart
    \/ MonitorPoll
    \/ MonitorScan
    \/ MonitorReturn

SpecLive == Init /\ [][NextMonitor]_vars /\ WF_vars(NextMonitor)

(***************************************************************************)
(* The statistics harness: get_bot_stats on counters as earlier operations *)
(* of a session may have left them.                                        *)
(***************************************************************************)
MaxCount == 4
InitS ==
    /\ vIn = NoInput
    /\ vOut = NotCalled
    /\ stats \in [comments_posted : 0..MaxCount, posts_retrieved : 0..1, errors : 0..MaxCount]
    /\ InitRest

NextS == GetBotStats

SpecS == InitS /\ [][NextS]_vars

(***************************************************************************)
(* Properties of validate_comment, checked under SpecV.                    *)
(***************************************************************************)
Validated == vOut.fn = "validate_comment"
OracleFails == vIn.oracle.kind \in {"raise", "none"}
OracleFailure == IF vIn.oracle.kind = "raise" THEN vIn.oracle.exc ELSE S_NoneStrip
TooShort == Len(Strip(vIn.text)) < MIN_COMMENT_LENGTH
TooLong == Len(vIn.text) > MAX_COMMENT_LENGTH

\* C8: validate_comment never propagates an exception: whatever the text and
\* whatever the Oracle does, it returns a verdict, and when the Oracle call
\* fails the verdict is rejecting and its reason carries the failure.
C8_ValidateNeverRaises ==
    Validated =>
        /\ ~vOut.r.raised
        /\ vOut.r.ok \in BOOLEAN
        /\ (vOut.r.oracle_calls > 0 /\ OracleFails) =>
              /\ ~vOut.r.ok
              /\ vOut.r.reason = MsgValidationError(OracleFailure)

C8_Witness ==
    /\ Validated
    /\ vIn.oracle = OracleRaises(E_Quota)
    /\ vOut.r.oracle_calls = 1
    /\ ~vOut.r.raised /\ ~vOut.r.ok
    /\ vOut.r.reason = MsgValidationError(E_Quota)

\* C9: a comment whose trimmed length is below the minimum or whose raw
\* length exceeds the maximum is rejected with the reason naming the violated
\* limit and with no call to the Oracle.
C9_LengthChecksShortCircuit ==
    (Validated /\ (TooShort \/ TooLong)) =>
        /\ ~vOut.r.raised
        /\ ~vOut.r.ok
        /\ vOut.r.oracle_calls = 0
        /\ \/ TooShort /\ vOut.r.reason = MsgTooShort
           \/ TooLong /\ vOut.r.reason = MsgTooLong

C9_Witness ==
    /\ Validated
    /\ vIn.oracle = OracleSays(S_VALID)
    /\ ~TooShort /\ TooLong
    /\ ~vOut.r.ok /\ vOut.r.oracle_calls = 0 /\ vOut.r.reason = MsgTooLong

\* C10: for a length-acceptable comment the sentinel decides: a response
\* that begins with VALID after trimming is accepted, and a response
\* "INVALID: <reason>" is rejected with the reason exactly <reason>, trimmed.
C10_SentinelDecides ==
    (Validated /\ ~TooShort /\ ~TooLong /\ vIn.oracle.kind = "content") =>
        \E result \in {Strip(vIn.oracle.content)} :
            /\ StartsWith(result, S_VALID) => vOut.r.ok
            /\ StartsWith(result, S_INVALID_COLON) =>
                  /\ ~vOut.r.ok
                  /\ vOut.r.reason =
                        MsgText(Strip(SubSeq(result, Len(S_INVALID_COLON) + 1, Len(result))))

\* C11: when the trimmed Oracle response begins with neither VALID nor
\* INVALID, validate_comment accepts exactly when the response contains
\* "valid" somewhere, whatever the case of its letters.
C11_FreeFormVerdict ==
    (Validated /\ ~TooShort /\ ~TooLong /\ vIn.oracle.kind = "content") =>
        \E result \in {Strip(vIn.oracle.content)} :
            (~StartsWith(result, S_VALID) /\ ~StartsWith(result, S_INVALID)) =>
                vOut.r.ok =
                    (\E i \in 1..Len(result) :
                        /\ i + Len(S_valid) - 1 <= Len(result)
                        /\ \A k \in 1..Len(S_valid) :
                              LowerChar(result[i + k - 1]) = S_valid[k])

C11_Witness ==
    /\ Validated
    /\ vIn.text = T_Good
    /\ vIn.oracle = OracleSays(R_FreeUpper)
    /\ vOut.r.ok
    /\ vOut.r.reason = MsgCompleted

\* the name with one leading "r/" or "R/" removed
WithoutLeadingPrefix(name) ==
    IF StartsWith(name, S_r_slash) \/ StartsWith(name, S_R_slash)
    THEN SubSeq(name, Len(S_r_slash) + 1, Len(name))
    ELSE name

\* C12: validate_subreddit_name(name) succeeds exactly when name, after a
\* leading "r/" or "R/" is stripped, is 3 to 21 characters of [A-Za-z0-9_];
\* on success it returns exactly that remainder, on failure a reason.
C12_SubredditNameFormat ==
    vOut.fn = "validate_subreddit_name" =>
        /\ ~vOut.r.raised
        /\ vOut.r.ok = IsName(WithoutLeadingPrefix(vIn.text))
        /\ vOut.r.ok => /\ vOut.r.text = MsgText(WithoutLeadingPrefix(vIn.text))
                        /\ IsName(vOut.r.text.text)
        /\ ~vOut.r.ok => vOut.r.text \in {MsgEmptyName, MsgBadFormat}

\* C13: validate_post_data(item) returns (True, reason) exactly when the
\* item has a non-empty id and a title that is neither empty nor all
\* whitespace, and (False, reason) for every other item.
C13_PostDataRequiresIdAndTitle ==
    vOut.fn = "validate_post_data" =>
        /\ ~vOut.r.raised
        /\ vOut.r.ok = (/\ vIn.post.has_id /\ vIn.post.id # ""
                        /\ vIn.post.has_title /\ ~vIn.post.title_none
                        /\ Len(Strip(vIn.post.title)) > 0)

(***************************************************************************)
(* Properties of the client and of the bot, checked under Spec.            *)
(***************************************************************************)
Monitoring == pc \in {"mon_check", "mon_scan"}
\* auto_comment_on_posts has ended, called from the session or by a job
AutoDone == pc \in {"done", "sched_jobs"} /\ ret.op = "auto_comment_on_posts"
MonitorDone == pc = "done" /\ ret.op = "monitor_subreddit"
IsPrefix(s, t) == Len(s) <= Len(t) /\ SubSeq(t, 1, Len(s)) = s

\* C1: in post_comment(validate=True), generate_and_post_comment and the
\* attempts of auto_comment_on_posts and monitor_subreddit, the Gateway
\* submit is invoked with a text only after validate_comment accepted that
\* text in the same call; a submit without an accepting verdict happens only
\* when the caller passed validate=False to post_comment.
C1_SubmitOnlyAfterAcceptance ==
    call.fn # "none" =>
        \A i \in 1..Len(call.out.log) :
            call.out.log[i].ev = "submit" =>
                \/ call.fn = "post_comment" /\ ~call.validate
                \/ \E j \in 1..(i - 1) :
                      /\ call.out.log[j].ev = "validate"
                      /\ call.out.log[j].ok
                      /\ call.out.log[j].text = call.out.log[i].text

C1_Witness ==
    /\ pc = "auto_loop"
    /\ call.fn = "generate_and_post_comment"
    /\ call.out.result.success
    /\ \E i \in 1..Len(call.out.log) :
          call.out.log[i].ev = "submit" /\ call.out.log[i].text = G_Good

\* C2: when the Oracle fails during synthesis generate_comment returns a
\* text beginning with "Error", and generate_and_post_comment treats every
\* synthesized text beginning with "Error" as a failure: it returns
\* success=False carrying that text and calls neither the validator nor the
\* Gateway submit.
C2_ErrorTextIsNeverPosted ==
    call.fn = "generate_and_post_comment" =>
        \A i \in 1..Len(call.out.log) :
            call.out.log[i].ev = "oracle_generate" =>
                /\ call.env.gen.kind # "content" => StartsWith(call.out.log[i].text, S_Error)
                /\ StartsWith(call.out.log[i].text, S_Error) =>
                      /\ ~call.out.raised
                      /\ ~call.out.result.success
                      /\ call.out.result.error = MsgText(call.out.log[i].text)
                      /\ \A j \in 1..Len(call.out.log) :
                            call.out.log[j].ev \notin {"oracle_validate", "validate", "submit"}

C2_Witness ==
    /\ call.fn = "generate_and_post_comment"
    /\ call.env.gen = OracleRaises(E_Quota)
    /\ call.env.post.val = OracleSays(S_VALID)
    /\ ~call.out.result.success
    /\ call.out.result.error = MsgText(S_ErrorGenerating \o E_Quota)
    /\ Len(call.out.log) = 2

\* C3: when the fetch succeeds auto_comment_on_posts returns one entry for
\* each of the first min(max_comments, eligible) eligible items, in order,
\* carrying the item's id and title, a success flag and, on failure, a
\* reason, whichever attempts failed; it raises only when the fetch does,
\* before any attempt.
C3_OneEntryPerAttempt ==
    AutoDone =>
        IF ret.kind = "raised"
        THEN results = << >> /\ used.oracle = 0 /\ used.submit = 0
        ELSE /\ Len(ret.results) = Min(max_comments, Len(eligible_list))
             /\ \A i \in 1..Len(ret.results) :
                   /\ ret.results[i].post_id = eligible_list[i].id
                   /\ ret.results[i].post_title = eligible_list[i].title
                   /\ ret.results[i].success \in BOOLEAN
                   /\ ~ret.results[i].success => ret.results[i].error # NoMsg

C3_Witness ==
    /\ AutoDone
    /\ ret.kind = "returned"
    /\ Len(ret.results) = 2
    /\ ~ret.results[1].success
    /\ ret.results[1].error # NoMsg
    /\ ret.results[2].success

\* C4: an exception raised inside one iteration of monitor_subreddit does
\* not end the loop and does not reach the caller: the loop sleeps the
\* 60-second backoff and is back at the loop test, where another iteration
\* starts if the deadline has not passed; the matches gathered so far stay
\* in the list and are returned.
C4_IterationExceptionIsSwallowed ==
    /\ [](pc = "mon_check" /\ now < end_time => ENABLED MonitorPoll)
    /\ [][Monitoring =>
            /\ ret'.kind # "raised"
            /\ IsPrefix(matches, matches')
            /\ failed_cycles' # failed_cycles =>
                  /\ pc' = "mon_check"
                  /\ now' = now + BACKOFF_SLEEP
                  /\ matches' = matches
            /\ pc' = "done" => ret'.matches = matches]_vars

C4_Witness ==
    /\ MonitorDone
    /\ ret.kind = "returned"
    /\ \E i \in 1..Len(ret.matches), f \in failed_cycles : ret.matches[i].cycle < f

\* C6: with a deadline that is not in the future monitor_subreddit performs
\* no iteration: it returns an empty match list, total_matches = 0, without
\* a fetch, an Oracle call, a submission or a sleep.
C6_PastDeadlineDoesNothing ==
    ((Monitoring \/ MonitorDone) /\ end_time <= start_time) =>
        /\ cycle = 0
        /\ used = NoneUsed
        /\ now = start_time
        /\ matches = << >>
        /\ pc = "done" =>
              ret.kind = "returned" /\ ret.matches = << >> /\ ret.total_matches = 0

C6_Witness ==
    /\ MonitorDone
    /\ end_time < start_time
    /\ keywords = <<K_python>>
    /\ action = "both"
    /\ ret.total_matches = 0

\* C7: within one scan cycle the match list gains at most one entry per
\* (item id, keyword) pair, for any keyword list and any page.
C7_AtMostOneMatchPerPair ==
    \A i, j \in 1..Len(matches) :
        (/\ i # j
         /\ matches[i].cycle = matches[j].cycle
         /\ matches[i].post_id = matches[j].post_id) => matches[i].keyword # matches[j].keyword

AutoRunning == pc = "auto_loop" \/ (AutoDone /\ ret.kind = "returned")

\* C14: in auto_comment_on_posts the eligible items are exactly the fetched
\* items with score >= min_score, not locked, not over_18 and fewer than 100
\* comments, and no comment is attempted on any other fetched item.
C14_EligibleSetIsTheFilter ==
    AutoRunning =>
        /\ \A i \in 1..Len(posts) :
              (\E j \in 1..Len(eligible_list) : eligible_list[j] = posts[i])
              = (/\ posts[i].score >= min_score
                 /\ ~posts[i].locked
                 /\ ~posts[i].over_18
                 /\ posts[i].num_comments < COMMENT_CAP)
        /\ \A j \in 1..Len(eligible_list) : \E i \in 1..Len(posts) : posts[i] = eligible_list[j]
        /\ \A k \in 1..Len(results) :
              \E j \in 1..Len(eligible_list) : eligible_list[j].id = results[k].post_id

C14_Witness ==
    /\ AutoDone
    /\ ret.kind = "returned"
    /\ posts = <<P6, P3, P2, P1>>
    /\ min_score = 5
    /\ eligible_list = <<P3, P1>>
    /\ Len(ret.results) = 2
    /\ ret.results[1].post_id = P3.id
    /\ ret.results[2].post_id = P1.id

\* C15: in auto_comment_on_posts at least the 10-second pacing delay lies
\* between every two successive comment attempts, whether the earlier one
\* succeeded, returned a failure or raised: every attempt is followed by one
\* more sleep of the bot and at least 10 seconds before the loop goes on, so
\* when attempt number idx is about to begin, idx - 1 pacing delays have
\* elapsed since the call began.
C15_PacingBetweenAttempts ==
    /\ [](pc = "auto_loop" => now - start.now >= (idx - 1) * PACING_SLEEP)
    /\ [][(pc = "auto_loop" /\ idx' # idx) =>
            /\ now' >= now + PACING_SLEEP
            /\ used'.sleep = used.sleep + CountEv(call'.out.log, {"sleep"}) + 1]_vars

\* a second attempt is about to begin after one that returned a failure, and
\* a third would begin after one that succeeded: 10 s, then 12 s have passed
C15_Witness ==
    /\ pc = "auto_loop" /\ idx = 3 /\ Len(results) = 2
    /\ ~results[1].success /\ results[2].success
    /\ now - start.now = 2 * PACING_SLEEP + RATE_LIMIT_DELAY

\* C16: every listing read of the bot, in retrieve_subreddit_data, in
\* auto_comment_on_posts and in each monitoring cycle, adds the size of the
\* batch to posts_retrieved.
C16_RetrievedCountsEveryRead == stats.posts_retrieved = tally.read_items

\* C17: every comment the bot submits successfully, in auto-comment and in
\* monitoring mode, adds one to comments_posted, which therefore equals the
\* number of comments submitted in the session.
C17_PostedCountsEverySubmission == stats.comments_posted = tally.posted

\* C18: every failure the bot catches adds one to errors: a failed or
\* rejected attempt in auto-comment mode, a failed batch fetch, an exception
\* caught in a monitoring iteration, a failed attempt on a matched item.
C18_ErrorsCountEveryFailure == stats.errors = tally.caught

\* C19: no step of any operation lowers comments_posted, posts_retrieved or
\* errors, and get_bot_stats leaves the three unchanged.
C19_CountersNeverDecrease ==
    [][/\ stats'.comments_posted >= stats.comments_posted
       /\ stats'.posts_retrieved >= stats.posts_retrieved
       /\ stats'.errors >= stats.errors
       /\ (tally'.reads # tally.reads /\ ret'.op = "get_bot_stats") => stats' = stats]_vars

C19_Witness ==
    /\ pc = "done"
    /\ ret.op = "get_bot_stats"
    /\ tally.reads = MaxReads
    /\ stats = [comments_posted |-> 1, posts_retrieved |-> 2, errors |-> 1]
    /\ ret.snapshot.posts_retrieved = 2
    /\ ret.snapshot.comments_posted = 1
    /\ ret.snapshot.errors = 1

(***************************************************************************)
(* The success rate, checked under SpecS.                                  *)
(***************************************************************************)
\* C20: get_bot_stats reports success_rate = 100 * comments_posted /
\* max(1, comments_posted + errors): the quotient is defined for all counter
\* values, is 0 with nothing posted and no error, 75 with 3 posted and 1
\* error, and lies between 0 and 100.
C20_SuccessRate ==
    ret.op = "get_bot_stats" =>
        \E r \in {ret.snapshot.success_rate}, p \in {stats.comments_posted}, e \in {stats.errors} :
            /\ r.den > 0
            /\ r.num * (IF p + e >= 1 THEN p + e ELSE 1) = 100 * p * r.den
            /\ (p = 0 /\ e = 0) => r.num = 0
            /\ (p = 3 /\ e = 1) => r.num = 75 * r.den
            /\ 0 <= r.num /\ r.num <= 100 * r.den

C20_Witness ==
    /\ ret.op = "get_bot_stats"
    /\ stats.comments_posted = 3
    /\ stats.errors = 1
    /\ ret.snapshot.success_rate.den = 4
    /\ ret.snapshot.success_rate.num = 75 * 4

(***************************************************************************)
(* Termination of monitor_subreddit, checked under SpecLive.               *)
(***************************************************************************)
\* C5: monitor_subreddit terminates: the loop eventually sees the clock at
\* or past the deadline, exits, and returns the accumulated matches with
\* total_matches equal to their number; no iteration begins once the clock
\* has reached the deadline.
C5_MonitoringTerminates ==
    /\ Monitoring ~> (/\ MonitorDone
                      /\ ret.kind = "returned"
                      /\ now >= end_time
                      /\ ret.matches = matches
                      /\ ret.total_matches = Len(matches))
    /\ [][cycle' > cycle => now < end_time]_vars

C5_Witness ==
    /\ MonitorDone
    /\ ret.kind = "returned"
    /\ cycle = 2
    /\ failed_cycles = {1}
    /\ now >= end_time
    /\ ret.total_matches = 2

(***************************************************************************)
(* Propagation of failures out of auto_comment_on_posts.                   *)
(***************************************************************************)
\* the listing read of the call fails: the name or the sort method is not
\* valid, or the Gateway raises (unknown community, forbidden, transport)
\* when it is asked for the items; it is not asked for a listing of 0 items
BatchFetchFails ==
    \/ ~IsName(WithoutLeadingPrefix(request.subreddit_name))
    \/ request.sort_by \notin {S_hot, S_new, S_top, S_rising}
    \/ max_comments > 0 /\ request.listing.kind = "raise"

\* C21: only a failure of the batch fetch aborts auto_comment_on_posts: when
\* the initial listing fails (unknown community, access forbidden, invalid
\* name or sort, transport error) the call raises to the caller, makes no
\* comment attempt and returns no result list; a failure of an individual
\* item never raises out of the call.
C21_OnlyFetchFailureAborts ==
    /\ AutoDone => (ret.kind = "raised") = BatchFetchFails
    /\ (AutoDone /\ ret.kind = "raised") =>
          /\ call = NoCall
          /\ results = << >> /\ ret.results = << >>
          /\ used.oracle = 0 /\ used.submit = 0
    /\ pc = "auto_loop" => ~BatchFetchFails /\ ret.kind # "raised"
    /\ (AutoDone /\ ret.kind = "returned") =>
          Len(ret.results) = Min(max_comments, Len(eligible_list))

C21_Witness ==
    /\ AutoDone
    /\ ret.kind = "raised"
    /\ request.listing = ListRaises(E_Redirect)
    /\ ret.exc = Exc("ValueError", S_SubredditR \o N_python \o S_DoesNotExist)
    /\ stats.errors = 1

(***************************************************************************)
(* The synthesizer's clean-up of the Oracle response, checked under SpecV. *)
(***************************************************************************)
Generated == vOut.fn = "generate_comment" /\ vIn.oracle.kind = "content"
ResponseLines == SplitLines(vIn.oracle.content)
IsMeta(line) == \E p \in MetaPrefixes : StartsWith(line, p)
\* a line that is neither empty nor, once trimmed, meta-commentary
Survives(line) == Strip(line) # << >> /\ ~IsMeta(Strip(line))
SomeLineSurvives == \E i \in 1..Len(ResponseLines) : Survives(ResponseLines[i])

RECURSIVE IsSubsequence(_, _)
IsSubsequence(a, b) ==
    IF Len(a) = 0 THEN TRUE
    ELSE IF Len(b) = 0 THEN FALSE
    ELSE IF a[1] = b[1] THEN IsSubsequence(Tail(a), Tail(b))
    ELSE IsSubsequence(a, Tail(b))

\* C22: whenever at least one line survives post-processing, the text
\* generate_comment returns contains no empty line and no line that starts
\* with "Here", "This comment" or "I generated", and the surviving lines
\* appear in their original order.
C22_NoMetaLineInResult ==
    (Generated /\ SomeLineSurvives) =>
        /\ \A line \in SeqRange(SplitLines(vOut.text)) : line # << >> /\ ~IsMeta(line)
        /\ IsSubsequence(SplitLines(vOut.text),
                         [i \in 1..Len(ResponseLines) |-> Strip(ResponseLines[i])])

\* C23: if post-processing strips every line of the Oracle response (each is
\* empty or starts with a self-referential prefix), generate_comment returns
\* the Oracle's raw response unchanged, character for character.
C23_FallbackIsTheRawResponse ==
    (Generated /\ ~SomeLineSurvives) => vOut.text = vIn.oracle.content

(***************************************************************************)
(* The scan of monitor_subreddit, checked under Spec.                      *)
(***************************************************************************)
\* the scan step records a KeywordMatch for the item and keyword at hand
MatchRecorded ==
    /\ Len(matches') = Len(matches) + 1
    /\ SubSeq(matches', 1, Len(matches)) = matches
    /\ matches'[Len(matches')].post_id = posts[idx].id
    /\ matches'[Len(matches')].title = posts[idx].title
    /\ matches'[Len(matches')].keyword = keywords[kidx]
\* keyword is in text, letter case aside
InIgnoringCase(keyword, text) == Contains(Lower(text), Lower(keyword))

\* C24 (as stated): in a monitor_subreddit scan a KeywordMatch is recorded
\* for an item and a keyword exactly when the keyword, compared
\* case-insensitively, is a substring of title + body.
C24_MatchOnTitlePlusBody ==
    [][pc = "mon_scan" =>
         (MatchRecorded <=>
             InIgnoringCase(keywords[kidx], posts[idx].title \o posts[idx].selftext))]_vars

\* C24 (amended): a KeywordMatch is recorded for an item and a keyword exactly
\* when the keyword, compared case-insensitively, is a substring of the
\* title, one space and the body; otherwise the match list is left as it is.
C24_MatchOnTitleSpaceBody ==
    [][pc = "mon_scan" =>
         /\ MatchRecorded <=>
               InIgnoringCase(keywords[kidx],
                              posts[idx].title \o <<" ">> \o posts[idx].selftext)
         /\ ~MatchRecorded => matches' = matches]_vars

C24_Witness ==
    /\ pc = "mon_check"
    /\ cycle = 1
    /\ posts = <<P3, P1>>
    /\ keywords = <<K_python>>
    /\ Len(matches) = 1
    /\ matches[1].post_id = P1.id
    /\ matches[1].keyword = K_python

(***************************************************************************)
(* No retry in auto_comment_on_posts, checked under Spec.                  *)
(***************************************************************************)
\* C25: there is no retry of an individual comment submission: within one
\* auto_comment_on_posts call the Gateway submit is invoked at most once per
\* attempted item, and an item whose attempt failed, was rejected by
\* validation or raised is never attempted again in that call.
C25_NoRetryOfAnAttempt ==
    /\ [](AutoRunning =>
            /\ \A i, j \in 1..Len(results) :
                  i # j => results[i].post_id # results[j].post_id
            /\ used.submit <= Len(results))
    /\ [][(pc = "auto_loop" /\ idx' # idx) =>
            /\ idx' = idx + 1
            /\ call'.fn = "generate_and_post_comment"
            /\ CountEv(call'.out.log, {"submit"}) <= 1
            /\ used'.submit = used.submit + CountEv(call'.out.log, {"submit"})
            /\ \A k \in 1..Len(results) : results[k].post_id # to_attempt[idx].id
            /\ results' = Append(results, results'[Len(results')])
            /\ results'[Len(results')].post_id = to_attempt[idx].id]_vars

C25_Witness ==
    /\ AutoDone
    /\ ret.kind = "returned"
    /\ Len(ret.results) = 2
    /\ ~ret.results[1].success
    /\ ret.results[1].error = MsgForbidden
    /\ ret.results[2].success
    /\ used.submit = 2
    /\ stats.errors = 1 /\ stats.comments_posted = 1

\* the pair at hand was matched in an earlier cycle of this call
MatchedBefore ==
    \E i \in 1..Len(matches) :
        /\ matches[i].post_id = posts[idx].id
        /\ matches[i].keyword = keywords[kidx]
        /\ matches[i].cycle < cycle
\* the scan step makes a comment attempt for the match it records
AttemptMade ==
    /\ call'.fn = "generate_and_post_comment"
    /\ tally' = Attempted(tally, call'.out)
    /\ used' = [UsedBy(used, call'.out.log) EXCEPT !.sleep = used'.sleep]
    /\ ~call'.out.raised =>
          matches'[Len(matches')].comment_result = CommentResult(call'.out.result)

\* C26: monitor_subreddit keeps no memory of the item ids it has matched: if
\* an item matching a keyword is still in the page on a later cycle, a
\* further KeywordMatch for the same (item, keyword) is appended, and under
\* action 'comment' or 'both' a further comment attempt is made on the item.
C26_NoMemoryAcrossCycles ==
    [][(pc = "mon_scan" /\ MatchedBefore) =>
          /\ MatchRecorded
          /\ action \in {"comment", "both"} => AttemptMade]_vars

C26_Witness ==
    /\ MonitorDone
    /\ action = "comment"
    /\ Len(matches) = 2
    /\ matches[1].post_id = P1.id /\ matches[2].post_id = P1.id
    /\ matches[1].keyword = K_python /\ matches[2].keyword = K_python
    /\ matches[1].cycle = 1 /\ matches[2].cycle = 2
    /\ matches[2].comment_result = CommentResult(Result(TRUE, NoMsg, NewCommentId))
    /\ used.submit = 2

\* C27: in monitor_subreddit a comment attempt is made exactly when a match
\* is found and the action is 'comment' or 'both': under 'log' or any other
\* action value matches are still recorded but no Oracle synthesis and no
\* Gateway submission ever occurs; under 'comment' or 'both' the attempt for
\* a match is made at once, before the next keyword or item is examined.
C27_AttemptExactlyOnMatchWhenCommenting ==
    /\ []((Monitoring \/ MonitorDone) /\ action \notin {"comment", "both"} =>
            /\ used.oracle = 0 /\ used.submit = 0
            /\ call = NoCall
            /\ tally.posted = start.tally.posted
            /\ tally.caught = start.tally.caught + Cardinality(failed_cycles)
            /\ \A i \in 1..Len(matches) : matches[i].comment_result = NoCommentResult)
    /\ [][pc = "mon_scan" =>
            /\ (tally' # tally) = (MatchRecorded /\ action \in {"comment", "both"})
            /\ (MatchRecorded /\ action \in {"comment", "both"}) => AttemptMade
            /\ ~(MatchRecorded /\ action \in {"comment", "both"}) =>
                  (call' = call /\ used'.oracle = used.oracle /\ used'.submit = used.submit)
            /\ (action \notin {"comment", "both"}
                 /\ InIgnoringCase(keywords[kidx],
                                    posts[idx].title \o <<" ">> \o posts[idx].selftext))
                  => MatchRecorded]_vars

C27_Witness ==
    /\ MonitorDone
    /\ action = "post"
    /\ ret.total_matches = 2
    /\ ret.matches[1].comment_result = NoCommentResult
    /\ used.oracle = 0 /\ used.submit = 0 /\ used.fetch = 2

(***************************************************************************)
(* Locked items, checked under Spec.                                       *)
(***************************************************************************)
\* the Gateway reports the item as locked when post_comment reads it
LockedAtCall == call.fn # "none" /\ call.env.post.sub = FetchOk(TRUE)
\* post_comment ran: called directly, or reached by generate_and_post_comment
PostCommentRan ==
    \/ call.fn = "post_comment"
    \/ call.fn = "generate_and_post_comment" /\ CountEv(call.out.log, {"fetch"}) = 2
Rejected == \E j \in 1..Len(call.out.log) : call.out.log[j].ev = "validate" /\ ~call.out.log[j].ok

\* C28 (as stated): post_comment never submits a reply to an item that is
\* locked at the time of the call: it returns success=False with the
\* 'locked' reason and comment_id None, without invoking the Gateway submit,
\* even when the item was unlocked in the earlier listing.
C28_LockedItemGetsLockedReason ==
    (LockedAtCall /\ PostCommentRan) =>
        /\ CountEv(call.out.log, {"submit"}) = 0
        /\ ~call.out.raised
        /\ ~call.out.result.success
        /\ call.out.result.comment_id = NoneId
        /\ call.out.result.error = MsgLocked

\* C28 (amended): post_comment never submits a reply to an item that is
\* locked at the time of the call: it returns success=False and comment_id
\* None without invoking the Gateway submit, with the 'locked' reason unless
\* validation rejected the comment first, in which case the reason is the
\* validation failure.
C28_LockedItemIsNeverRepliedTo ==
    /\ LockedAtCall => CountEv(call.out.log, {"submit"}) = 0
    /\ (LockedAtCall /\ PostCommentRan) =>
          /\ ~call.out.raised
          /\ ~call.out.result.success
          /\ call.out.result.comment_id = NoneId
          /\ IF Rejected
             THEN call.out.result.error.pre = "Comment validation failed: "
             ELSE call.out.result.error = MsgLocked

C28_Witness ==
    /\ pc = "auto_loop"
    /\ LockedAtCall /\ PostCommentRan /\ ~Rejected
    /\ Len(results) = 1
    /\ results[1].error = MsgLocked
    /\ ~eligible_list[1].locked
    /\ results[1].post_id = eligible_list[1].id
    /\ used.submit = 0

(***************************************************************************)
(* The counters of one auto_comment_on_posts call, checked under Spec.     *)
(***************************************************************************)
Successes(rs) == Cardinality({i \in 1..Len(rs) : rs[i].success})
Failures(rs) == Cardinality({i \in 1..Len(rs) : ~rs[i].success})

\* C29: each comment attempt in auto_comment_on_posts increments exactly one
\* of the two counters: after the call returns normally comments_posted has
\* grown by the number of successful entries of the returned list and errors
\* by the number of failed entries, so the two increases sum to the length
\* of the list.
C29_OneCounterPerAttempt ==
    /\ [][(pc = "auto_loop" /\ idx' # idx) =>
            /\ Len(results') = Len(results) + 1
            /\ stats'.posts_retrieved = stats.posts_retrieved
            /\ IF results'[Len(results')].success
               THEN /\ stats'.comments_posted = stats.comments_posted + 1
                    /\ stats'.errors = stats.errors
               ELSE /\ stats'.comments_posted = stats.comments_posted
                    /\ stats'.errors = stats.errors + 1]_vars
    /\ [][(pc = "auto_loop" /\ pc' # "auto_loop") =>
            /\ ret'.kind = "returned"
            /\ stats' = stats
            /\ stats.comments_posted = start.stats.comments_posted + Successes(ret'.results)
            /\ stats.errors = start.stats.errors + Failures(ret'.results)
            /\ (stats.comments_posted - start.stats.comments_posted)
                  + (stats.errors - start.stats.errors) = Len(ret'.results)]_vars

C29_Witness ==
    /\ AutoDone
    /\ ret.kind = "returned"
    /\ Len(ret.results) = 2
    /\ ret.results[1].success
    /\ ~ret.results[2].success
    /\ ret.results[2].comment_id = NoneId
    /\ stats.comments_posted = 1
    /\ stats.errors = 1

(***************************************************************************)
(* Attempts per match in monitor_subreddit, checked under Spec.            *)
(***************************************************************************)
\* the entries of the keyword list the item matches
MatchingKeywords(post) ==
    {k \in 1..Len(keywords) :
        InIgnoringCase(keywords[k], post.title \o <<" ">> \o post.selftext)}
\* the matches recorded for the item in the cycle
MatchesInCycle(post, c) ==
    {i \in 1..Len(matches) : matches[i].post_id = post.id /\ matches[i].cycle = c}
Submitted(match) == match.comment_result.present /\ match.comment_result.result.success

\* C30: in monitor_subreddit with action 'comment' or 'both' comment attempts
\* are made per match, not per item: an item that matches k entries of the
\* keyword list in one scan cycle receives k separate attempts in that cycle,
\* with no delay between them other than the rate-limit delay that follows a
\* submission.
C30_OneAttemptPerMatch ==
    ((Monitoring \/ MonitorDone) /\ action \in {"comment", "both"}) =>
        /\ (tally.posted - start.tally.posted) + (tally.caught - start.tally.caught)
              = Len(matches) + Cardinality(failed_cycles)
        /\ tally.posted - start.tally.posted
              = Cardinality({i \in 1..Len(matches) : Submitted(matches[i])})
        /\ (pc # "mon_scan" /\ cycle >= 1 /\ cycle \notin failed_cycles) =>
              \A n \in 1..Len(posts) :
                  Cardinality(MatchesInCycle(posts[n], cycle))
                    = Cardinality(MatchingKeywords(posts[n]))
        /\ \A i \in 1..(Len(matches) - 1) :
              matches[i].cycle = matches[i + 1].cycle =>
                  matches[i + 1].matched_at =
                      matches[i].matched_at
                        + (IF Submitted(matches[i]) THEN RATE_LIMIT_DELAY ELSE 0)

C30_Witness ==
    /\ MonitorDone
    /\ action = "both"
    /\ keywords = <<K_python, K_python>>
    /\ posts = <<P1>>
    /\ Cardinality(MatchesInCycle(P1, 1)) = 2
    /\ Submitted(matches[1]) /\ Submitted(matches[2])
    /\ matches[1].matched_at = 0
    /\ matches[2].matched_at = RATE_LIMIT_DELAY
    /\ used.submit >= 2

====
